---- MODULE Spec2Model ----
(***************************************************************************)
(* LiveCaption: the producer / worker-thread stages of the caption         *)
(* pipeline.                                                               *)
(*                                                                         *)
(*   "asr"    FastJapaneseTranscriber   (transcription.py)                 *)
(*   "direct" DirectJapaneseChinese     (direct_transcription.py)          *)
(*   "mt"     NaturalJapaneseChinese    (translation.py)                   *)
(*   "cap"    SystemAudioCapture        (audio_capture.py)                 *)
(*                                                                         *)
(* Every stage owns a queue.Queue(), a running flag, a worker thread and a *)
(* result callback.  Each Python thread is a process of the model: the     *)
(* producer that calls add_audio_chunk / translate (for "cap": the sound   *)
(* device's callback), the controller that calls start / stop, and the     *)
(* worker threads.  A step of a process is the code between two accesses   *)
(* to state another thread can see.                                        *)
(***************************************************************************)
EXTENDS Integers, Sequences, FiniteSets

(* ---------------------------------------------------------------- bounds *)
MaxItems == 2       \* inputs submitted to a stage in one behaviour
MaxThreads == 2     \* worker threads a stage spawns in one behaviour
MaxCalls == 4       \* calls of _translate_text in one behaviour
MaxStops == 2       \* calls of the orchestrator's stop() in one behaviour

(* ------------------------------------------------------ program constants *)
maxsize == 0             \* queue.Queue() : "maxsize <= 0 means infinite"
silence_threshold == 10  \* volume < 0.01, in thousandths

Stages == {"asr", "direct", "mt", "cap"}
InferenceStages == {"asr", "direct", "mt"}
AudioStages == {"asr", "direct"}
Threads == 1..MaxThreads

\* RMS volumes of the chunks the model feeds, in thousandths: one below the
\* silence threshold and one on it.
ChunkVolumes == {9, 10}
\* Texts are sequences of characters.
TextInputs == {<<"a">>, <<" ", "a">>, <<" ">>}
\* What the opaque speech engines return when they do not raise.
EngineTexts == {<<"a", "n">>, <<"n", "n">>}
\* What the opaque translation pipeline returns when it does not raise.
TranslatorTexts == {<<"z">>, <<" ">>}

NoItem == [id |-> 0, v |-> 0]
\* arguments of _translate_text: three keys, one of them also with a
\* leading blank, a text the substitution rewrites another one to, and a
\* blank text
CacheTexts == {<<"a">>, <<" ", "a">>, <<"b">>, <<"c">>, <<"y">>, <<" ">>}

(* --------------------------------------------------------------- helpers *)
RECURSIVE LStrip(_)
LStrip(t) ==
  IF t # <<>> /\ Head(t) = " " THEN LStrip(Tail(t)) ELSE t

RECURSIVE RStrip(_)
RStrip(t) ==
  IF t # <<>> /\ t[Len(t)] = " " THEN RStrip(SubSeq(t, 1, Len(t) - 1)) ELSE t

\* str.strip()
Strip(t) == RStrip(LStrip(t))

\* text.count(c)
Count(t, c) == Cardinality({i \in 1..Len(t) : t[i] = c})

Ids(q) == [i \in 1..Len(q) |-> q[i].id]
IdSet(q) == {q[i].id : i \in 1..Len(q)}
Range(f) == {f[i] : i \in DOMAIN f}

(* ------------------------------------------------------------- queue.Queue *)
\* Queue.full(): with maxsize <= 0 the queue is never full.
Full(q) == maxsize > 0 /\ Len(q) >= maxsize

\* Queue.put_nowait
put_nowait(q, x) ==
  IF Full(q) THEN [q |-> q, exc |-> "Full"]
  ELSE [q |-> Append(q, x), exc |-> "none"]

\* Queue.get_nowait
get_nowait(q) ==
  IF q = <<>> THEN [q |-> q, exc |-> "Empty"]
  ELSE [q |-> Tail(q), exc |-> "none"]

\* A push that keeps what is queued and drops the new item.
try_push_drop_newest(q, x) ==
  IF Len(q) >= 1 THEN [q |-> q, exc |-> "none"]
  ELSE [q |-> Append(q, x), exc |-> "none"]

\* A push whose queue.Full reaches the caller.
try_push_uncaught(q, x) ==
  IF Len(q) >= 1 THEN [q |-> q, exc |-> "Full"]
  ELSE [q |-> Append(q, x), exc |-> "none"]

\* The try / except queue.Full / try / except queue.Empty block shared by
\* add_audio_chunk, translate and _audio_callback_internal.
try_push(q, x) ==
  LET first == put_nowait(q, x) IN
  IF first.exc = "none" THEN first
  ELSE LET got == get_nowait(q) IN
       IF got.exc = "Empty" THEN [q |-> q, exc |-> "none"]
       ELSE put_nowait(got.q, x)


(* ------------------------------------------------ opaque engines, wrapped *)
\* A _transcribe_audio whose except clause returns a text.
transcribe_audio_error_text(outcome) ==
  IF outcome.exc THEN <<"e", "r">>
  ELSE LET text == Strip(outcome.text) IN
       IF Len(text) < 2 \/ 10 * Count(text, "n") > 8 * Len(text)
       THEN <<>> ELSE text

\* FastJapaneseTranscriber._transcribe_audio: the text the worker gets for
\* an engine outcome (the call raised, or the text model.transcribe returned).
transcribe_audio(outcome) ==
  IF outcome.exc THEN <<>>
  ELSE LET text == Strip(outcome.text) IN
       IF Len(text) < 2 \/ 10 * Count(text, "n") > 8 * Len(text)
       THEN <<>> ELSE text

\* DirectJapaneseChinese._post_process_chinese, on texts without tags or
\* inner whitespace.
post_process_chinese(text) ==
  IF text = <<>> THEN <<>>
  ELSE LET t == Strip(text) IN
       IF Len(t) < 2 THEN <<>>
       ELSE IF 10 * Cardinality(Range(t)) < 3 * Len(t) /\ Len(t) > 5
            THEN <<>> ELSE Strip(t)

\* DirectJapaneseChinese._transcribe_audio
direct_transcribe_audio(outcome) ==
  IF outcome.exc THEN <<>>
  ELSE post_process_chinese(Strip(outcome.text))

\* NaturalJapaneseChinese._translate_text: the text the worker gets for an
\* outcome of the try block (it raised, or the text the cache or the
\* translator produced, which _post_process_translation strips).
translate_text(japanese_text, outcome) ==
  IF Strip(japanese_text) = <<>> THEN <<>>
  ELSE IF outcome.exc THEN japanese_text
  ELSE Strip(outcome.text)

\* The outcomes of a stage's inference call.
Outcomes(s) ==
  {[exc |-> TRUE, text |-> <<>>]} \cup
  {[exc |-> FALSE, text |-> x] : x \in IF s = "mt" THEN TranslatorTexts ELSE EngineTexts}

\* The value the worker of stage s computes for a dequeued item.
Process(s, item, outcome) ==
  CASE s = "asr" -> transcribe_audio(outcome)
    [] s = "direct" -> direct_transcribe_audio(outcome)
    [] s = "mt" -> translate_text(item.v, outcome)

(* ----------------------------------------------------------------- state *)
VARIABLES
  active,           \* the stages that exist in this behaviour
  is_running,       \* is_running / is_recording
  queue,            \* transcription_queue / translation_queue / audio_queue
  thread,           \* transcription_thread / translation_thread /
                    \* recording_thread: 0 is None
  result_callback,  \* result_callback / audio_callback is set
  stream,           \* the sounddevice stream of "cap"
  wpc,              \* position of every worker thread
  witem,            \* the item a worker holds
  ppc,              \* position of the producer thread
  pitem,            \* the item the producer is submitting
  cpc,              \* position of the controller thread
  nextId,           \* identity of the next item produced
  accepted,         \* history: ids put into the queue, in order
  dequeued,         \* history: ids the workers took, in order
  emitted,          \* history: the result callbacks invoked, in order
  rejected,         \* history: ids submitted while the flag was false
  sincePop,         \* history: puts since a worker last took an item
  pending,          \* history: ids queued when the latest stop() began and
                    \* not processed since
  pushRaised,       \* history: a push raised to its caller
  lastEvent         \* history: what the last step was, if it was a start()
                    \* or stop() that returned early, an exception in a
                    \* worker or the dequeuing of a silent chunk; "none"
                    \* after any other step

\* The orchestrator (LiveCaptionApp / LiveCaptionDirectApp) that owns the
\* stages; "none" in a behaviour of a stage on its own.
VARIABLES
  app,              \* the orchestrator class of this behaviour
  apc,              \* position of the main thread in start() / stop()
  app_is_running,   \* self.is_running of the orchestrator
  use_direct_mode,  \* self.use_direct_mode: "unset" until it is assigned
  ui,               \* the caption UI and its thread
  app_error,        \* an exception is propagating out of start()
  stop_calls        \* history: the calls of stop() begun

stageVars ==
  <<active, is_running, queue, thread, result_callback, stream, wpc, witem,
    ppc, pitem, cpc, nextId, accepted, dequeued, emitted, rejected, sincePop,
    pending, pushRaised, lastEvent>>

appVars ==
  <<app, apc, app_is_running, use_direct_mode, ui, app_error, stop_calls>>

\* NaturalJapaneseChinese._translate_text and its cache, called on its own.
VARIABLES
  model,              \* self.model: "loaded", or "none" when _load_model failed
  translation_cache,  \* self.translation_cache: the entries, oldest first
  calls,              \* history: number of _translate_text calls made
  inference_calls,    \* history: inference invocations per argument text
  last_call           \* history: argument, result and path of the last call

cacheVars == <<model, translation_cache, calls, inference_calls, last_call>>

\* NaturalJapaneseChinese._apply_natural_patterns, called on its own and
\* followed rule by rule.
VARIABLES
  fold_input,         \* japanese_text, the argument
  fold_text,          \* text, the local variable the two loops rewrite
  fold_pc             \* number of rules applied so far; -1 without a call

foldVars == <<fold_input, fold_text, fold_pc>>

\* SystemAudioCapture._find_best_input_device, called on its own.
VARIABLES
  devices,            \* sd.query_devices(): per device, whether its name
                      \* holds a loopback keyword and max_input_channels
  default_device,     \* sd.default.device[0] as a position in devices;
                      \* 0 is None
  device_pc,          \* "none", "call", "returned" or "raised"
  device_id           \* the position returned; 0 when none was

deviceVars == <<devices, default_device, device_pc, device_id>>

\* What a translator called as a whole leaves alone.
pureVars == <<foldVars, deviceVars>>

\* What the orchestrator's callbacks write: the texts the caption window
\* holds and the statistics counters.
VARIABLES
  caption,            \* FloatingCaptionUI.japanese_text / chinese_text, as
                      \* the identity of the utterance whose text it is:
                      \* 0 is the empty text, -1 the fixed placeholder of
                      \* the Direct mode
  stats               \* self.stats of the orchestrator: the counters

displayVars == <<caption, stats>>

\* What the orchestrator's own steps leave alone.
restVars == <<cacheVars, pureVars, displayVars>>

\* What the orchestrator's callbacks leave alone.
fixedVars == <<appVars, cacheVars, pureVars>>

\* What lies outside the stage objects.
outerVars == <<appVars, cacheVars, pureVars, displayVars>>

vars == <<stageVars, appVars, cacheVars, pureVars, displayVars>>

Alive(s) == {t \in Threads : wpc[s][t] \notin {"none", "done"}}
Spawned(s) == {t \in Threads : wpc[s][t] # "none"}
Inferring(s) == {t \in Threads : wpc[s][t] = "infer"}

\* __init__ of the four classes.
StagesInit ==
  /\ is_running = [s \in Stages |-> FALSE]
  /\ queue = [s \in Stages |-> <<>>]
  /\ thread = [s \in Stages |-> 0]
  /\ result_callback = [s \in Stages |-> FALSE]
  /\ stream = "none"
  /\ wpc = [s \in Stages |-> [t \in Threads |-> "none"]]
  /\ witem = [s \in Stages |-> [t \in Threads |-> NoItem]]
  /\ ppc = [s \in Stages |-> "idle"]
  /\ pitem = [s \in Stages |-> NoItem]
  /\ cpc = [s \in Stages |-> "idle"]
  /\ nextId = 1
  /\ accepted = [s \in Stages |-> <<>>]
  /\ dequeued = [s \in Stages |-> <<>>]
  /\ emitted = [s \in Stages |-> <<>>]
  /\ rejected = [s \in Stages |-> {}]
  /\ sincePop = [s \in Stages |-> 0]
  /\ pending = [s \in Stages |-> {}]
  /\ pushRaised = FALSE
  /\ lastEvent = "none"

\* The cache of a translator whose _translate_text is not looked into.
CacheUnused ==
  /\ model = "loaded"
  /\ translation_cache = <<>>
  /\ calls = 0
  /\ inference_calls = [x \in CacheTexts |-> 0]
  /\ last_call = [text |-> <<>>, result |-> <<>>, hit |-> FALSE,
                  inferred |-> FALSE, raised |-> FALSE]

\* FloatingCaptionUI.__init__ and the stats dictionary of the orchestrator's
\* __init__.
Placeholder == -1

DisplayInit ==
  /\ caption = [japanese |-> 0, chinese |-> 0]
  /\ stats = [audio_chunks |-> 0, transcriptions |-> 0, translations |-> 0]

\* A count that clears the other counters.
CountedAlone(counter) ==
  [c \in DOMAIN stats |-> IF c = counter THEN stats[c] + 1 ELSE 0]

\* self.stats[counter] += 1
Counted(counter) == [stats EXCEPT ![counter] = @ + 1]

\* No call of _apply_natural_patterns or _find_best_input_device on its own.
PureUnused ==
  /\ fold_input = <<>>
  /\ fold_text = <<>>
  /\ fold_pc = -1
  /\ devices = <<>>
  /\ default_device = 0
  /\ device_pc = "none"
  /\ device_id = 0

\* One stage, driven by an arbitrary owner.
Init ==
  /\ active \in {{s} : s \in Stages}
  /\ StagesInit
  /\ app = "none"
  /\ apc = "none"
  /\ app_is_running = FALSE
  /\ use_direct_mode = "unset"
  /\ ui = "none"
  /\ app_error = FALSE
  /\ stop_calls = 0
  /\ CacheUnused
  /\ DisplayInit
  /\ PureUnused

(* ------------------------------------------------------------- operations *)
Inputs(s) == IF s = "mt" THEN TextInputs ELSE ChunkVolumes

\* set_result_callback / set_audio_callback, called by the owner of the
\* stage before it first starts it (as _setup_components does).
SetResultCallback(s) ==
  /\ s \in active
  /\ ~result_callback[s]
  /\ Spawned(s) = {} /\ cpc[s] = "idle" /\ ~is_running[s]
  /\ result_callback' = [result_callback EXCEPT ![s] = TRUE]
  /\ lastEvent' = "none"
  /\ UNCHANGED <<active, is_running, queue, thread, stream, wpc, witem, ppc,
                 pitem, cpc, nextId, accepted, dequeued, emitted, rejected,
                 sincePop, pending, pushRaised>>

\* A start() without the early return: it spawns a thread every time.
StartUnguarded(s) ==
  /\ s \in active /\ s \in InferenceStages
  /\ cpc[s] = "idle"
  /\ Cardinality(Spawned(s)) < MaxThreads
  /\ LET t == Cardinality(Spawned(s)) + 1 IN
     /\ is_running' = [is_running EXCEPT ![s] = TRUE]
     /\ thread' = [thread EXCEPT ![s] = t]
     /\ wpc' = [wpc EXCEPT ![s][t] = "loop"]
  /\ lastEvent' = IF is_running[s] THEN "start_running" ELSE "none"
  /\ UNCHANGED <<active, queue, result_callback, stream, witem, ppc, pitem,
                 cpc, nextId, accepted, dequeued, emitted, rejected, sincePop,
                 pending, pushRaised>>

\* start() of the three inference stages.
Start(s) ==
  /\ s \in active /\ s \in InferenceStages
  /\ cpc[s] = "idle"
  /\ IF is_running[s]
     THEN /\ lastEvent' = "start_running"
          /\ UNCHANGED <<is_running, thread, wpc>>
     ELSE /\ Cardinality(Spawned(s)) < MaxThreads
          /\ LET t == Cardinality(Spawned(s)) + 1 IN
             /\ is_running' = [is_running EXCEPT ![s] = TRUE]
             /\ thread' = [thread EXCEPT ![s] = t]
             /\ wpc' = [wpc EXCEPT ![s][t] = "loop"]
          /\ lastEvent' = "none"
  /\ UNCHANGED <<active, queue, result_callback, stream, witem, ppc, pitem,
                 cpc, nextId, accepted, dequeued, emitted, rejected, sincePop,
                 pending, pushRaised>>

\* A stop() that empties the queue.
StopDraining(s) ==
  /\ s \in active /\ s \in InferenceStages
  /\ cpc[s] = "idle"
  /\ IF ~is_running[s]
     THEN /\ lastEvent' = "stop_stopped"
          /\ UNCHANGED <<is_running, cpc, pending, queue>>
     ELSE /\ is_running' = [is_running EXCEPT ![s] = FALSE]
          /\ cpc' = [cpc EXCEPT ![s] = IF thread[s] # 0 THEN "join" ELSE "idle"]
          /\ pending' = [pending EXCEPT ![s] = IdSet(queue[s])]
          /\ queue' = [queue EXCEPT ![s] = <<>>]
          /\ lastEvent' = "none"
  /\ UNCHANGED <<active, thread, result_callback, stream, wpc, witem,
                 ppc, pitem, nextId, accepted, dequeued, emitted, rejected,
                 sincePop, pushRaised>>

\* stop() of the three inference stages, up to the join.
Stop(s) ==
  /\ s \in active /\ s \in InferenceStages
  /\ cpc[s] = "idle"
  /\ IF ~is_running[s]
     THEN /\ lastEvent' = "stop_stopped"
          /\ UNCHANGED <<is_running, cpc, pending>>
     ELSE /\ is_running' = [is_running EXCEPT ![s] = FALSE]
          /\ cpc' = [cpc EXCEPT ![s] = IF thread[s] # 0 THEN "join" ELSE "idle"]
          /\ pending' = [pending EXCEPT ![s] = IdSet(queue[s])]
          /\ lastEvent' = "none"
  /\ UNCHANGED <<active, queue, thread, result_callback, stream, wpc, witem,
                 ppc, pitem, nextId, accepted, dequeued, emitted, rejected,
                 sincePop, pushRaised>>

\* thread.join(timeout=...): returns when the thread has ended, or at the
\* timeout, which the worker outlasts inside an inference call or a callback.
JoinReturn(s) ==
  /\ s \in active
  /\ cpc[s] = "join"
  /\ \/ wpc[s][thread[s]] = "done"
     \/ wpc[s][thread[s]] \in {"infer", "cb"}
  /\ cpc' = [cpc EXCEPT ![s] = "idle"]
  /\ lastEvent' = "none"
  /\ UNCHANGED <<active, is_running, queue, thread, result_callback, stream,
                 wpc, witem, ppc, pitem, nextId, accepted, dequeued, emitted,
                 rejected, sincePop, pending, pushRaised>>

\* An entry point that does not look at the running flag.
AcceptsAlways(s, v) ==
  s = "mt" => Strip(v) # <<>>

\* The guard of add_audio_chunk / translate.
Accepts(s, v) ==
  /\ is_running[s]
  /\ s = "mt" => Strip(v) # <<>>

\* add_audio_chunk / translate: the call and its guard.
AddInput(s, v) ==
  /\ s \in active /\ s \in InferenceStages
  /\ ppc[s] = "idle"
  /\ nextId <= MaxItems
  /\ nextId' = nextId + 1
  /\ rejected' = [rejected EXCEPT ![s] =
                    IF is_running[s] THEN @ ELSE @ \cup {nextId}]
  /\ IF Accepts(s, v)
     THEN /\ ppc' = [ppc EXCEPT ![s] = "put"]
          /\ pitem' = [pitem EXCEPT ![s] =
                [id |-> nextId, v |-> IF s = "mt" THEN Strip(v) ELSE v]]
     ELSE UNCHANGED <<ppc, pitem>>
  /\ lastEvent' = "none"
  /\ UNCHANGED <<active, is_running, queue, thread, result_callback, stream,
                 wpc, witem, cpc, accepted, dequeued, emitted, sincePop,
                 pending, pushRaised>>

\* add_audio_chunk / translate: the try block around put_nowait.
Put(s) ==
  /\ s \in active /\ s \in InferenceStages
  /\ ppc[s] = "put"
  /\ LET r == try_push(queue[s], pitem[s]) IN
     /\ queue' = [queue EXCEPT ![s] = r.q]
     /\ pushRaised' = (pushRaised \/ r.exc # "none")
     /\ accepted' = [accepted EXCEPT ![s] =
                       IF r.exc = "none" THEN Append(@, pitem[s].id) ELSE @]
  /\ sincePop' = [sincePop EXCEPT ![s] = @ + 1]
  /\ ppc' = [ppc EXCEPT ![s] = "idle"]
  /\ pitem' = [pitem EXCEPT ![s] = NoItem]
  /\ lastEvent' = "none"
  /\ UNCHANGED <<active, is_running, thread, result_callback, stream, wpc,
                 witem, cpc, nextId, dequeued, emitted, rejected, pending>>

(* ---------------------------------------------------------------- workers *)
\* A worker loop whose thread ends on the first exception of an item.
WorkerNextUncaught(exc) ==
  IF exc = "Exception" THEN "done" ELSE "loop"

\* The except clauses of the worker loops: queue.Empty continues, any other
\* Exception is printed, and the while loop goes on.
WorkerNext(exc) ==
  CASE exc = "none" -> "loop"
    [] exc = "Empty" -> "loop"
    [] exc = "Exception" -> "loop"

\* while self.is_running:
WorkerCheck(s, t) ==
  /\ s \in active
  /\ wpc[s][t] = "loop"
  /\ wpc' = [wpc EXCEPT ![s][t] = IF is_running[s] THEN "get" ELSE "done"]
  /\ lastEvent' = "none"
  /\ UNCHANGED <<active, is_running, queue, thread, result_callback, stream,
                 witem, ppc, pitem, cpc, nextId, accepted, dequeued, emitted,
                 rejected, sincePop, pending, pushRaised>>

\* queue.get(timeout=0.1) finds the queue empty until the timeout.
WorkerGetEmpty(s, t) ==
  /\ s \in active
  /\ wpc[s][t] = "get"
  /\ queue[s] = <<>>
  /\ wpc' = [wpc EXCEPT ![s][t] = WorkerNext("Empty")]
  /\ lastEvent' = "none"
  /\ UNCHANGED <<active, is_running, queue, thread, result_callback, stream,
                 witem, ppc, pitem, cpc, nextId, accepted, dequeued, emitted,
                 rejected, sincePop, pending, pushRaised>>

\* What the worker does with the item it dequeued, before any blocking call:
\* the audio stages skip a chunk below the silence threshold, the capture
\* thread has no inference and calls audio_callback if one is set.
AfterGetNoSilenceGate(s, item) ==
  CASE s \in AudioStages -> "infer"
    [] s = "mt" -> "infer"
    [] s = "cap" -> IF result_callback[s] THEN "cb" ELSE "loop"

AfterGet(s, item) ==
  CASE s \in AudioStages ->
         IF item.v < silence_threshold THEN "loop" ELSE "infer"
    [] s = "mt" -> "infer"
    [] s = "cap" -> IF result_callback[s] THEN "cb" ELSE "loop"

\* queue.get(timeout=0.1) returns an item.
WorkerGet(s, t) ==
  /\ s \in active
  /\ wpc[s][t] = "get"
  /\ queue[s] # <<>>
  /\ LET item == Head(queue[s])
         next == AfterGet(s, item) IN
     /\ queue' = [queue EXCEPT ![s] = Tail(@)]
     /\ dequeued' = [dequeued EXCEPT ![s] = Append(@, item.id)]
     /\ wpc' = [wpc EXCEPT ![s][t] = next]
     /\ witem' = [witem EXCEPT ![s][t] = IF next = "loop" THEN NoItem ELSE item]
     /\ emitted' = [emitted EXCEPT ![s] =
           IF next = "cb"
           THEN Append(@, [id |-> item.id, src |-> item.v, out |-> item.v,
                           exc |-> FALSE])
           ELSE @]
     /\ pending' = [pending EXCEPT ![s] =
           IF next = "infer" THEN @ ELSE @ \ {item.id}]
  /\ sincePop' = [sincePop EXCEPT ![s] = 0]
  /\ lastEvent' = IF s \in AudioStages /\ Head(queue[s]).v < silence_threshold
                  THEN "silence_skipped" ELSE "none"
  /\ UNCHANGED <<active, is_running, thread, result_callback, stream, ppc,
                 pitem, cpc, nextId, accepted, rejected, pushRaised>>

\* The inference call of an inference stage returns (or raises inside
\* _transcribe_audio / _translate_text), and the worker invokes the result
\* callback if it got a text and a callback is set.
WorkerInfer(s, t, outcome) ==
  /\ s \in active /\ s \in InferenceStages
  /\ wpc[s][t] = "infer"
  /\ outcome \in Outcomes(s)
  /\ LET item == witem[s][t]
         text == Process(s, item, outcome)
         fire == text # <<>> /\ result_callback[s] IN
     /\ wpc' = [wpc EXCEPT ![s][t] = IF fire THEN "cb" ELSE WorkerNext("none")]
     /\ witem' = [witem EXCEPT ![s][t] = IF fire THEN item ELSE NoItem]
     /\ emitted' = [emitted EXCEPT ![s] =
           IF fire
           THEN Append(@, [id |-> item.id, src |-> item.v, out |-> text,
                           exc |-> outcome.exc])
           ELSE @]
     /\ pending' = [pending EXCEPT ![s] = @ \ {item.id}]
  /\ lastEvent' = IF outcome.exc THEN "infer_raised" ELSE "none"
  /\ UNCHANGED <<active, is_running, queue, thread, result_callback, stream,
                 ppc, pitem, cpc, nextId, accepted, dequeued, rejected,
                 sincePop, pushRaised>>

\* The result callback (audio_callback for "cap") returns or raises.
WorkerCallback(s, t, exc) ==
  /\ s \in active
  /\ wpc[s][t] = "cb"
  /\ exc \in {"none", "Exception"}
  /\ wpc' = [wpc EXCEPT ![s][t] = WorkerNext(exc)]
  /\ witem' = [witem EXCEPT ![s][t] = NoItem]
  /\ lastEvent' = IF exc = "Exception" THEN "callback_raised" ELSE "none"
  /\ UNCHANGED <<active, is_running, queue, thread, result_callback, stream,
                 ppc, pitem, cpc, nextId, accepted, dequeued, emitted,
                 rejected, sincePop, pending, pushRaised>>

(* ---------------------------------------------------- SystemAudioCapture *)
\* start_capture, up to is_recording = True: the early return, and
\* _find_best_input_device, which raises when no device qualifies.
StartCapture(device) ==
  /\ "cap" \in active
  /\ cpc["cap"] = "idle"
  /\ device \in {"found", "none"}
  /\ IF is_running["cap"]
     THEN /\ device = "found"
          /\ lastEvent' = "start_running"
          /\ UNCHANGED <<is_running, cpc>>
     ELSE /\ Cardinality(Spawned("cap")) < MaxThreads
          /\ lastEvent' = "none"
          /\ IF device = "none"
             THEN UNCHANGED <<is_running, cpc>>
             ELSE /\ is_running' = [is_running EXCEPT !["cap"] = TRUE]
                  /\ cpc' = [cpc EXCEPT !["cap"] = "open"]
  /\ UNCHANGED <<active, queue, thread, result_callback, stream, wpc, witem,
                 ppc, pitem, nextId, accepted, dequeued, emitted, rejected,
                 sincePop, pending, pushRaised>>

\* start_capture from sd.InputStream(...) on: opening the stream may raise,
\* then the thread is started, then stream.start() may raise; the except
\* clause resets is_recording and re-raises.
StartCaptureOpen(outcome) ==
  /\ "cap" \in active
  /\ cpc["cap"] = "open"
  /\ outcome \in {"open_raises", "start_raises", "ok"}
  /\ cpc' = [cpc EXCEPT !["cap"] = "idle"]
  /\ LET t == Cardinality(Spawned("cap")) + 1 IN
     IF outcome = "open_raises"
     THEN /\ is_running' = [is_running EXCEPT !["cap"] = FALSE]
          /\ UNCHANGED <<stream, thread, wpc>>
     ELSE /\ stream' = IF outcome = "ok" THEN "active" ELSE "open"
          /\ thread' = [thread EXCEPT !["cap"] = t]
          /\ wpc' = [wpc EXCEPT !["cap"][t] = "loop"]
          /\ is_running' = [is_running EXCEPT !["cap"] = (outcome = "ok")]
  /\ lastEvent' = "none"
  /\ UNCHANGED <<active, queue, result_callback, witem, ppc, pitem, nextId,
                 accepted, dequeued, emitted, rejected, sincePop, pending,
                 pushRaised>>

\* stop_capture, up to the join: stream.stop() or stream.close() may raise,
\* and then neither the rest of the release nor the join is done.
StopCapture(outcome) ==
  /\ "cap" \in active
  /\ cpc["cap"] = "idle"
  /\ outcome \in {"ok", "stop_raises", "close_raises"}
  /\ IF ~is_running["cap"]
     THEN /\ outcome = "ok"
          /\ lastEvent' = "stop_stopped"
          /\ UNCHANGED <<is_running, stream, cpc, pending>>
     ELSE /\ is_running' = [is_running EXCEPT !["cap"] = FALSE]
          /\ pending' = [pending EXCEPT !["cap"] = IdSet(queue["cap"])]
          /\ lastEvent' = "none"
          /\ stream' = IF stream = "none" THEN stream
                       ELSE CASE outcome = "ok" -> "closed"
                              [] outcome = "stop_raises" -> stream
                              [] outcome = "close_raises" -> "stopped"
          /\ cpc' = [cpc EXCEPT !["cap"] =
                IF (outcome = "ok" \/ stream = "none") /\ thread["cap"] # 0
                THEN "join" ELSE "idle"]
  /\ UNCHANGED <<active, queue, thread, result_callback, wpc, witem, ppc,
                 pitem, nextId, accepted, dequeued, emitted, rejected,
                 sincePop, pushRaised>>

\* _audio_callback_internal, called by the sound device while the stream is
\* active: the mono chunk is put into audio_queue.
AudioCallback(v) ==
  /\ "cap" \in active
  /\ stream = "active"
  /\ v \in ChunkVolumes
  /\ nextId <= MaxItems
  /\ nextId' = nextId + 1
  /\ LET r == try_push(queue["cap"], [id |-> nextId, v |-> v]) IN
     /\ queue' = [queue EXCEPT !["cap"] = r.q]
     /\ pushRaised' = (pushRaised \/ r.exc # "none")
     /\ accepted' = [accepted EXCEPT !["cap"] =
                       IF r.exc = "none" THEN Append(@, nextId) ELSE @]
  /\ sincePop' = [sincePop EXCEPT !["cap"] = @ + 1]
  /\ lastEvent' = "none"
  /\ UNCHANGED <<active, is_running, thread, result_callback, stream, wpc,
                 witem, ppc, pitem, cpc, dequeued, emitted, rejected, pending>>

(* ---------------------------------------------------------- specification *)
\* The steps of a stage on its own: its owner, its producer and its workers.
Next ==
  \/ \E s \in Stages : SetResultCallback(s) /\ UNCHANGED outerVars
  \/ \E s \in Stages : Start(s) /\ UNCHANGED outerVars
  \/ \E s \in Stages : Stop(s) /\ UNCHANGED outerVars
  \/ \E s \in Stages : JoinReturn(s) /\ UNCHANGED outerVars
  \/ \E s \in Stages : \E v \in Inputs(s) :
        AddInput(s, v) /\ UNCHANGED outerVars
  \/ \E s \in Stages : Put(s) /\ UNCHANGED outerVars
  \/ \E s \in Stages, t \in Threads : WorkerCheck(s, t) /\ UNCHANGED outerVars
  \/ \E s \in Stages, t \in Threads :
        WorkerGetEmpty(s, t) /\ UNCHANGED outerVars
  \/ \E s \in Stages, t \in Threads : WorkerGet(s, t) /\ UNCHANGED outerVars
  \/ \E s \in Stages, t \in Threads : \E o \in Outcomes(s) :
        WorkerInfer(s, t, o) /\ UNCHANGED outerVars
  \/ \E s \in Stages, t \in Threads, e \in {"none", "Exception"} :
        WorkerCallback(s, t, e) /\ UNCHANGED outerVars
  \/ \E d \in {"found", "none"} : StartCapture(d) /\ UNCHANGED outerVars
  \/ \E o \in {"open_raises", "start_raises", "ok"} :
        StartCaptureOpen(o) /\ UNCHANGED outerVars
  \/ \E o \in {"ok", "stop_raises", "close_raises"} :
        StopCapture(o) /\ UNCHANGED outerVars
  \/ \E v \in ChunkVolumes : AudioCallback(v) /\ UNCHANGED outerVars

Spec == Init /\ [][Next]_vars

\* A step of worker thread t of stage s: the loop test, the timed get, the
\* inference call returning or raising, the callback returning or raising.
WorkerStep(s, t) ==
  /\ \/ WorkerCheck(s, t)
     \/ WorkerGetEmpty(s, t)
     \/ WorkerGet(s, t)
     \/ \E o \in Outcomes(s) : WorkerInfer(s, t, o)
     \/ \E e \in {"none", "Exception"} : WorkerCallback(s, t, e)
  /\ UNCHANGED outerVars

\* A stage on its own whose worker threads are scheduled fairly and whose
\* blocking calls return: queue.get(timeout=...) returns by its timeout,
\* and the inference call and the callback are taken to return.
FairSpec ==
  Spec /\ \A s \in Stages, t \in Threads : WF_vars(WorkerStep(s, t))


(* ----------------------------------------------------------- orchestrator *)
Apps == {"LiveCaptionApp", "LiveCaptionDirectApp"}

\* __init__ of the orchestrator: no component exists yet.
AppInit ==
  /\ active = {}
  /\ StagesInit
  /\ app \in Apps
  /\ apc = "init"
  /\ app_is_running = FALSE
  /\ use_direct_mode = "unset"
  /\ ui = "none"
  /\ app_error = FALSE
  /\ stop_calls = 0
  /\ CacheUnused
  /\ DisplayInit
  /\ PureUnused

\* The stage that _on_audio_chunk feeds and _start_services starts first.
Recognizer ==
  IF app = "LiveCaptionDirectApp" /\ use_direct_mode = "true"
  THEN "direct" ELSE "asr"

\* A routing of the chunks to the legacy recognizer in either mode.
ChunkTargetLegacy == "asr"

\* The stage _on_audio_chunk hands the chunk to: 'if self.use_direct_mode:
\* self.direct_transcriber.add_audio_chunk(...) else: self.legacy_transcriber
\* .add_audio_chunk(...)'; LiveCaptionApp has the one transcriber.
ChunkTarget ==
  IF app = "LiveCaptionDirectApp" /\ use_direct_mode = "true"
  THEN "direct" ELSE "asr"

\* A setup that declares Direct mode whatever the initialisations did.
ModeAlwaysDirect(direct_ok, legacy_ok) == "true"

\* The mode _setup_components settles on, from the outcome of the two
\* initialisations: "unset" when neither assignment is reached.
ModeAfterSetup(direct_ok, legacy_ok) ==
  IF direct_ok THEN "true" ELSE IF legacy_ok THEN "false" ELSE "unset"

\* The stage objects _setup_components leaves assigned.  LiveCaptionApp
\* builds the recognizer, then the translator; LiveCaptionDirectApp builds
\* the direct stage and falls back to _setup_legacy_mode when that raises.
Components(a, direct_ok, legacy) ==
  LET legacyStages == CASE legacy = "ok" -> {"asr", "mt"}
                        [] legacy = "translator_raises" -> {"asr"}
                        [] legacy = "transcriber_raises" -> {} IN
  IF a = "LiveCaptionApp" THEN legacyStages
  ELSE IF direct_ok THEN {"direct"} ELSE legacyStages

\* A setup whose failure start() would swallow.
AfterSetupSwallowing(ok) == "ui_thread"

\* Where start() goes after _setup_components: on to the UI thread, or, when
\* it raised, through the except clause to the finally clause.
AfterSetup(ok) == IF ok THEN "ui_thread" ELSE "finally"

\* start(), up to _setup_components.
AppStart ==
  /\ apc = "init"
  /\ app_is_running' = TRUE
  /\ apc' = "setup"
  /\ UNCHANGED <<stageVars, app, use_direct_mode, ui, app_error, stop_calls>>

\* _setup_components: the caption UI, the stages with their callbacks, the
\* capture with its callback.  Whatever raises is re-raised to start().
SetupComponents(ui_ok, direct_ok, legacy) ==
  /\ apc = "setup"
  /\ ui_ok \in BOOLEAN /\ direct_ok \in BOOLEAN
  /\ legacy \in {"ok", "transcriber_raises", "translator_raises"}
  /\ LET built == IF ui_ok THEN Components(app, direct_ok, legacy) ELSE {}
         ok == ui_ok /\ ((app = "LiveCaptionDirectApp" /\ direct_ok)
                          \/ legacy = "ok") IN
     /\ ui' = IF ui_ok THEN "created" ELSE ui
     /\ active' = IF ok THEN built \cup {"cap"} ELSE built
     /\ result_callback' =
          [s \in Stages |-> s \in built \/ (ok /\ s = "cap")]
     /\ use_direct_mode' =
          IF app = "LiveCaptionDirectApp" /\ ui_ok
          THEN ModeAfterSetup(direct_ok, legacy = "ok")
          ELSE use_direct_mode
     /\ app_error' = ~ok
     /\ apc' = AfterSetup(ok)
  /\ lastEvent' = "none"
  /\ UNCHANGED <<is_running, queue, thread, stream, wpc, witem, ppc, pitem,
                 cpc, nextId, accepted, dequeued, emitted, rejected, sincePop,
                 pending, pushRaised, app, app_is_running, stop_calls>>

\* start(): the UI thread is started.
StartUIThread ==
  /\ apc = "ui_thread"
  /\ ui' = "running"
  /\ apc' = "start_recognition"
  /\ UNCHANGED <<stageVars, app, app_is_running, use_direct_mode, app_error,
                 stop_calls>>

\* _run_ui: caption_ui.run() returns or raises (the window was closed), and
\* the finally clause clears the orchestrator's flag.
UIEnd ==
  /\ ui = "running"
  /\ ui' = "ended"
  /\ app_is_running' = FALSE
  /\ UNCHANGED <<stageVars, app, apc, use_direct_mode, app_error, stop_calls>>

\* A _start_services that forgets the recognizer.
StartRecognitionSkipped ==
  /\ apc = "start_recognition"
  /\ apc' = IF Recognizer = "direct" THEN "start_capture"
            ELSE "start_translation"
  /\ UNCHANGED <<stageVars, app, app_is_running, use_direct_mode, ui,
                 app_error, stop_calls>>

\* _start_services, first call: direct_transcriber.start(), or
\* transcriber.start() / legacy_transcriber.start().
StartRecognition ==
  /\ apc = "start_recognition"
  /\ Start(Recognizer)
  /\ apc' = IF Recognizer = "direct" THEN "start_capture"
            ELSE "start_translation"
  /\ UNCHANGED <<app, app_is_running, use_direct_mode, ui, app_error,
                 stop_calls>>

\* _start_services, second call of the two-stage pipeline:
\* translator.start() / legacy_translator.start().
StartTranslation ==
  /\ apc = "start_translation"
  /\ Start("mt")
  /\ apc' = "start_capture"
  /\ UNCHANGED <<app, app_is_running, use_direct_mode, ui, app_error,
                 stop_calls>>

\* _start_services, last call: audio_capture.start_capture(); what it raises
\* goes through start()'s except clause to its finally clause.
AppStartCapture(device) ==
  /\ apc = "start_capture"
  /\ StartCapture(device)
  /\ apc' = IF device = "none" THEN "finally" ELSE "start_capture_open"
  /\ app_error' = (device = "none")
  /\ UNCHANGED <<app, app_is_running, use_direct_mode, ui, stop_calls>>

AppStartCaptureOpen(outcome) ==
  /\ apc = "start_capture_open"
  /\ StartCaptureOpen(outcome)
  /\ apc' = IF outcome = "ok" THEN "main_loop" ELSE "finally"
  /\ app_error' = (outcome # "ok")
  /\ UNCHANGED <<app, app_is_running, use_direct_mode, ui, stop_calls>>

\* start(): 'while self.is_running: time.sleep(0.1)' ends, by the flag or by
\* a KeyboardInterrupt, which start() swallows.
MainLoopExit(interrupt) ==
  /\ apc = "main_loop"
  /\ interrupt \in BOOLEAN
  /\ interrupt \/ ~app_is_running
  /\ apc' = "finally"
  /\ UNCHANGED <<stageVars, app, app_is_running, use_direct_mode, ui,
                 app_error, stop_calls>>

\* A stop() that forgets the mode.
AppStopResettingMode ==
  /\ apc = "finally"
  /\ app_is_running' = FALSE
  /\ use_direct_mode' = "unset"
  /\ apc' = "stop_capture"
  /\ stop_calls' = stop_calls + 1
  /\ UNCHANGED <<stageVars, app, ui, app_error>>

\* stop(), up to _stop_services: called by the signal handler, or reached
\* from start()'s finally clause.
AppStop ==
  /\ apc = "finally"
  /\ app_is_running' = FALSE
  /\ apc' = "stop_capture"
  /\ stop_calls' = stop_calls + 1
  /\ UNCHANGED <<stageVars, app, use_direct_mode, ui, app_error>>

\* A _stop_services that leaves the capture running.
AppStopCaptureSkipped(outcome) ==
  /\ apc = "stop_capture"
  /\ outcome = "ok"
  /\ apc' = "stop_recognition"
  /\ UNCHANGED <<stageVars, app, app_is_running, use_direct_mode, ui,
                 app_error, stop_calls>>

\* _stop_services, first call: 'if self.audio_capture: stop_capture()'.
\* There is no try around it: what stream.stop() or stream.close() raises
\* leaves _stop_services, stop() and start().
AppStopCapture(outcome) ==
  /\ apc = "stop_capture"
  /\ outcome \in {"ok", "stop_raises", "close_raises"}
  /\ IF "cap" \in active
     THEN /\ StopCapture(outcome)
          /\ LET raised == is_running["cap"] /\ stream # "none"
                             /\ outcome # "ok" IN
             /\ apc' = IF raised THEN "exited" ELSE "stop_recognition"
             /\ app_error' = (app_error \/ raised)
     ELSE /\ outcome = "ok"
          /\ apc' = "stop_recognition"
          /\ UNCHANGED <<stageVars, app_error>>
  /\ UNCHANGED <<app, app_is_running, use_direct_mode, ui, stop_calls>>

\* A _stop_services that forgets the recognizer.
AppStopRecognitionSkipped ==
  /\ apc = "stop_recognition"
  /\ cpc["cap"] = "idle"
  /\ apc' = IF Recognizer = "direct" THEN "destroy_ui"
            ELSE "stop_translation"
  /\ UNCHANGED <<stageVars, app, app_is_running, use_direct_mode, ui,
                 app_error, stop_calls>>

\* _stop_services, second call, once stop_capture has returned.
\* LiveCaptionApp: 'if self.transcriber: stop()'.  LiveCaptionDirectApp
\* reads self.use_direct_mode, an AttributeError if setup never assigned it.
AppStopRecognition ==
  /\ apc = "stop_recognition"
  /\ cpc["cap"] = "idle"
  /\ IF app = "LiveCaptionDirectApp" /\ use_direct_mode = "unset"
     THEN /\ apc' = "exited"
          /\ app_error' = TRUE
          /\ UNCHANGED stageVars
     ELSE /\ IF Recognizer \in active
             THEN Stop(Recognizer)
             ELSE UNCHANGED stageVars
          /\ apc' = IF Recognizer = "direct" THEN "destroy_ui"
                    ELSE "stop_translation"
          /\ UNCHANGED app_error
  /\ UNCHANGED <<app, app_is_running, use_direct_mode, ui, stop_calls>>

\* _stop_services, third call of the two-stage pipeline, once the
\* recognizer's stop() has returned.
AppStopTranslation ==
  /\ apc = "stop_translation"
  /\ cpc["asr"] = "idle"
  /\ IF "mt" \in active THEN Stop("mt") ELSE UNCHANGED stageVars
  /\ apc' = "destroy_ui"
  /\ UNCHANGED <<app, app_is_running, use_direct_mode, ui, app_error,
                 stop_calls>>

\* stop(), after _stop_services: caption_ui.destroy(), and start() returns
\* or lets the pending exception through.
AppDestroyUI ==
  /\ apc = "destroy_ui"
  /\ \A s \in Stages : cpc[s] = "idle"
  /\ ui' = IF ui = "none" THEN ui ELSE "destroyed"
  /\ apc' = "exited"
  /\ UNCHANGED <<stageVars, app, app_is_running, use_direct_mode, app_error,
                 stop_calls>>

\* The stop() that has ended was the signal handler's: its sys.exit(0), or
\* what that stop() raised, leaves start() through the finally clause, which
\* calls stop() a second time.
SignalExit ==
  /\ apc = "exited"
  /\ stop_calls < MaxStops
  /\ apc' = "finally"
  /\ UNCHANGED <<stageVars, app, app_is_running, use_direct_mode, ui,
                 app_error, stop_calls>>

\* The result a worker inside its result callback is reporting.
ResultOf(s, t) ==
  LET i == CHOOSE i \in 1..Len(emitted[s]) : emitted[s][i].id = witem[s][t].id
  IN emitted[s][i]

\* What a worker thread inside its callback hands on: the capture thread
\* the chunk it holds, the recognizer's worker the text it reported.
Handed(from, t) ==
  IF from = "asr"
  THEN [id |-> witem["asr"][t].id, v |-> Strip(ResultOf("asr", t).out)]
  ELSE witem[from][t]

\* A worker thread inside its callback hands `item` to stage `to`: the
\* guard of add_audio_chunk / translate.
Submit(from, t, to, item) ==
  /\ rejected' = [rejected EXCEPT ![to] =
                    IF is_running[to] THEN @ ELSE @ \cup {item.id}]
  /\ IF to \in active /\ Accepts(to, item.v)
     THEN /\ wpc' = [wpc EXCEPT ![from][t] = "put"]
          /\ UNCHANGED witem
     ELSE /\ wpc' = [wpc EXCEPT ![from][t] = WorkerNext("none")]
          /\ witem' = [witem EXCEPT ![from][t] = NoItem]

\* ... and the try block around put_nowait, after which the callback
\* returns to the worker loop.
SubmitPut(from, t, to) ==
  /\ wpc[from][t] = "put"
  /\ LET r == try_push(queue[to], Handed(from, t)) IN
     /\ queue' = [queue EXCEPT ![to] = r.q]
     /\ pushRaised' = (pushRaised \/ r.exc # "none")
     /\ accepted' = [accepted EXCEPT ![to] =
                       IF r.exc = "none" THEN Append(@, witem[from][t].id)
                       ELSE @]
  /\ sincePop' = [sincePop EXCEPT ![to] = @ + 1]
  /\ wpc' = [wpc EXCEPT ![from][t] = WorkerNext("none")]
  /\ witem' = [witem EXCEPT ![from][t] = NoItem]
  /\ lastEvent' = "none"
  /\ UNCHANGED <<active, is_running, thread, result_callback, stream, ppc,
                 pitem, cpc, nextId, dequeued, emitted, rejected, pending>>

\* An _on_audio_chunk that does not count the chunk.
OnAudioChunkUncounted(t) ==
  /\ "cap" \in active
  /\ wpc["cap"][t] = "cb"
  /\ UNCHANGED <<stats, caption>>
  /\ Submit("cap", t, ChunkTarget, Handed("cap", t))
  /\ lastEvent' = "none"
  /\ UNCHANGED <<active, is_running, queue, thread, result_callback, stream,
                 ppc, pitem, cpc, nextId, accepted, dequeued, emitted,
                 sincePop, pending, pushRaised>>

\* _on_audio_chunk, on the capture's processing thread: the chunk is
\* counted and goes to the recognizer of the mode.
OnAudioChunk(t) ==
  /\ "cap" \in active
  /\ wpc["cap"][t] = "cb"
  /\ stats' = Counted("audio_chunks")
  /\ UNCHANGED caption
  /\ Submit("cap", t, ChunkTarget, Handed("cap", t))
  /\ lastEvent' = "none"
  /\ UNCHANGED <<active, is_running, queue, thread, result_callback, stream,
                 ppc, pitem, cpc, nextId, accepted, dequeued, emitted,
                 sincePop, pending, pushRaised>>

\* _on_transcription / _on_legacy_transcription, on the recognizer's worker:
\* the result is counted, update_caption(japanese=...) stores the text and
\* schedules the redraw, which may raise, and then the text goes to the
\* translator.
OnTranscription(t, exc) ==
  /\ "asr" \in active
  /\ wpc["asr"][t] = "cb"
  /\ exc \in {"none", "Exception"}
  /\ stats' = Counted("transcriptions")
  /\ caption' = [caption EXCEPT !.japanese = witem["asr"][t].id]
  /\ IF exc = "none"
     THEN Submit("asr", t, "mt", Handed("asr", t))
     ELSE /\ wpc' = [wpc EXCEPT !["asr"][t] = WorkerNext(exc)]
          /\ witem' = [witem EXCEPT !["asr"][t] = NoItem]
          /\ UNCHANGED rejected
  /\ lastEvent' = IF exc = "Exception" THEN "callback_raised" ELSE "none"
  /\ UNCHANGED <<active, is_running, queue, thread, result_callback, stream,
                 ppc, pitem, cpc, nextId, accepted, dequeued, emitted,
                 sincePop, pending, pushRaised>>

\* A translation callback that hands the display the source text only.
OnTranslationSourceOnly(t, exc) ==
  /\ WorkerCallback("mt", t, exc)
  /\ stats' = IF app = "LiveCaptionApp" THEN Counted("translations")
              ELSE stats
  /\ caption' = [caption EXCEPT !.japanese = witem["mt"][t].id]

\* _on_translation / _on_legacy_translation, on the translator's worker:
\* update_caption(japanese=..., chinese=...) stores both texts and
\* schedules the redraw, which may raise.  Only LiveCaptionApp counts the
\* result: LiveCaptionDirectApp has no 'translations' counter.
OnTranslation(t, exc) ==
  /\ WorkerCallback("mt", t, exc)
  /\ stats' = IF app = "LiveCaptionApp" THEN Counted("translations")
              ELSE stats
  /\ caption' = [japanese |-> witem["mt"][t].id, chinese |-> witem["mt"][t].id]

\* _on_direct_transcription, on the direct recognizer's worker: the result
\* is counted and update_caption stores the placeholder and the Chinese
\* text.
OnDirectTranscription(t, exc) ==
  /\ WorkerCallback("direct", t, exc)
  /\ stats' = Counted("transcriptions")
  /\ caption' = [japanese |-> Placeholder, chinese |-> witem["direct"][t].id]

\* The outcomes of an inference call under an orchestrator: it raises, or it
\* returns one text.
AppOutcomes(s) ==
  {o \in Outcomes(s) : o.exc \/ o.text \in {<<"a", "n">>, <<"z">>}}

\* The steps of an orchestrator, its stages' workers, the sound device and
\* the UI thread.  The capture's join waits for a thread whose callback
\* never blocks, so it returns when that thread has ended.
AppNext ==
  \/ AppStart /\ UNCHANGED restVars
  \/ \E u, d \in BOOLEAN :
       \E l \in {"ok", "transcriber_raises", "translator_raises"} :
         SetupComponents(u, d, l) /\ UNCHANGED restVars
  \/ StartUIThread /\ UNCHANGED restVars
  \/ UIEnd /\ UNCHANGED restVars
  \/ StartRecognition /\ UNCHANGED restVars
  \/ StartTranslation /\ UNCHANGED restVars
  \/ \E d \in {"found", "none"} : AppStartCapture(d) /\ UNCHANGED restVars
  \/ \E o \in {"open_raises", "start_raises", "ok"} :
       AppStartCaptureOpen(o) /\ UNCHANGED restVars
  \/ \E i \in BOOLEAN : MainLoopExit(i) /\ UNCHANGED restVars
  \/ AppStop /\ UNCHANGED restVars
  \/ \E o \in {"ok", "stop_raises", "close_raises"} :
       AppStopCapture(o) /\ UNCHANGED restVars
  \/ AppStopRecognition /\ UNCHANGED restVars
  \/ AppStopTranslation /\ UNCHANGED restVars
  \/ AppDestroyUI /\ UNCHANGED restVars
  \/ \E t \in Threads : OnAudioChunk(t) /\ UNCHANGED fixedVars
  \/ \E t \in Threads : SubmitPut("cap", t, ChunkTarget) /\ UNCHANGED outerVars
  \/ \E t \in Threads, e \in {"none", "Exception"} :
       OnTranscription(t, e) /\ UNCHANGED fixedVars
  \/ \E t \in Threads : SubmitPut("asr", t, "mt") /\ UNCHANGED outerVars
  \/ \E t \in Threads, e \in {"none", "Exception"} :
       OnTranslation(t, e) /\ UNCHANGED fixedVars
  \/ \E t \in Threads, e \in {"none", "Exception"} :
       OnDirectTranscription(t, e) /\ UNCHANGED fixedVars
  \/ \E s \in InferenceStages : JoinReturn(s) /\ UNCHANGED outerVars
  \/ /\ thread["cap"] # 0
     /\ wpc["cap"][thread["cap"]] = "done"
     /\ JoinReturn("cap")
     /\ UNCHANGED outerVars
  \/ \E s \in Stages, t \in Threads : WorkerCheck(s, t) /\ UNCHANGED outerVars
  \/ \E s \in Stages, t \in Threads :
       WorkerGetEmpty(s, t) /\ UNCHANGED outerVars
  \/ \E s \in Stages, t \in Threads : WorkerGet(s, t) /\ UNCHANGED outerVars
  \/ \E s \in Stages, t \in Threads : \E o \in AppOutcomes(s) :
       WorkerInfer(s, t, o) /\ UNCHANGED outerVars
  \/ \E v \in ChunkVolumes : AudioCallback(v) /\ UNCHANGED outerVars

AppSpec == AppInit /\ [][AppNext]_vars

\* The orchestrator run from main(), where setup_signal_handlers has
\* installed the handler that calls stop() and then sys.exit(0).
SignalNext ==
  \/ AppNext
  \/ SignalExit /\ UNCHANGED restVars

SignalSpec == AppInit /\ [][SignalNext]_vars

\* A step of worker thread t of stage s under the orchestrator: the loop
\* test, the timed get, the inference call, and the orchestrator's callback
\* with the hand-over to the next stage.
AppWorkerStep(s, t) ==
  \/ /\ \/ WorkerCheck(s, t)
        \/ WorkerGetEmpty(s, t)
        \/ WorkerGet(s, t)
        \/ \E o \in AppOutcomes(s) : WorkerInfer(s, t, o)
        \/ s = "cap" /\ SubmitPut("cap", t, ChunkTarget)
        \/ s = "asr" /\ SubmitPut("asr", t, "mt")
     /\ UNCHANGED outerVars
  \/ /\ \/ s = "cap" /\ OnAudioChunk(t)
        \/ s = "asr" /\ \E e \in {"none", "Exception"} : OnTranscription(t, e)
        \/ s = "mt" /\ \E e \in {"none", "Exception"} : OnTranslation(t, e)
        \/ s = "direct" /\
             \E e \in {"none", "Exception"} : OnDirectTranscription(t, e)
     /\ UNCHANGED fixedVars

\* The orchestrator with a translation worker that is scheduled fairly and
\* whose blocking calls return.  The worker threads are not daemon threads,
\* so they go on running when the main thread has left.  Every step of a
\* worker changes its position.
FairAppSpec ==
  AppSpec /\ \A t \in Threads : WF_wpc(AppWorkerStep("mt", t))

\* A step of the main thread inside start() and stop(): every statement
\* but the wait of the main loop, which a KeyboardInterrupt alone ends
\* while the flag is set, and every join, which returns at the latest by
\* its timeout.
MainStep ==
  \/ /\ \/ AppStart
        \/ \E u, d \in BOOLEAN :
             \E l \in {"ok", "transcriber_raises", "translator_raises"} :
               SetupComponents(u, d, l)
        \/ StartUIThread
        \/ StartRecognition
        \/ StartTranslation
        \/ \E d \in {"found", "none"} : AppStartCapture(d)
        \/ \E o \in {"open_raises", "start_raises", "ok"} :
             AppStartCaptureOpen(o)
        \/ MainLoopExit(FALSE)
        \/ AppStop
        \/ \E o \in {"ok", "stop_raises", "close_raises"} : AppStopCapture(o)
        \/ AppStopRecognition
        \/ AppStopTranslation
        \/ AppDestroyUI
     /\ UNCHANGED restVars
  \/ /\ \/ \E s \in InferenceStages : JoinReturn(s)
        \/ /\ thread["cap"] # 0
           /\ wpc["cap"][thread["cap"]] = "done"
           /\ JoinReturn("cap")
     /\ UNCHANGED outerVars

\* The orchestrator with a main thread and worker threads that are
\* scheduled fairly and whose blocking calls return.
FairShutdownSpec ==
  /\ AppSpec
  /\ WF_<<apc, cpc>>(MainStep)
  /\ \A s \in Stages, t \in Threads : WF_wpc(AppWorkerStep(s, t))


(* --------------------------------------------------- the translation cache *)
\* pat occurs in text.
Occurs(pat, text) ==
  \E i \in 1..Len(text) :
    i + Len(pat) - 1 <= Len(text) /\ SubSeq(text, i, i + Len(pat) - 1) = pat

\* A substitution that replaces the leftmost match only.
RECURSIVE ReSubFirst(_, _, _)
ReSubFirst(pat, rep, text) ==
  IF Len(text) < Len(pat) THEN text
  ELSE IF SubSeq(text, 1, Len(pat)) = pat
       THEN rep \o SubSeq(text, Len(pat) + 1, Len(text))
       ELSE <<Head(text)>> \o ReSubFirst(pat, rep, Tail(text))

\* re.sub(pat, rep, text) for a literal pattern: the non-overlapping matches
\* are replaced, scanning from the left.  The patterns of the tables hold
\* no regular-expression operator and no cased letter.
RECURSIVE ReSub(_, _, _)
ReSub(pat, rep, text) ==
  IF Len(text) < Len(pat) THEN text
  ELSE IF SubSeq(text, 1, Len(pat)) = pat
       THEN rep \o ReSub(pat, rep, SubSeq(text, Len(pat) + 1, Len(text)))
       ELSE <<Head(text)>> \o ReSub(pat, rep, Tail(text))

\* _load_casual_patterns / _load_intimate_patterns, in table order.  As in
\* the code, a pattern ("w", for the interjection at line 99) stands before
\* a pattern that encloses it ("uw", line 100), one pattern ("b", lines 93
\* and 140) stands in both tables, and no replacement holds a letter of a
\* pattern.
casual_patterns ==
  <<[pat |-> <<"b">>, rep |-> <<"y">>],
    [pat |-> <<"w">>, rep |-> <<"o">>],
    [pat |-> <<"u", "w">>, rep |-> <<"o">>]>>
intimate_patterns ==
  <<[pat |-> <<"c">>, rep |-> <<"k", "k">>],
    [pat |-> <<"b">>, rep |-> <<"x">>]>>

RECURSIVE ApplyRules(_, _)
ApplyRules(rules, text) ==
  IF rules = <<>> THEN text
  ELSE ApplyRules(Tail(rules), ReSub(Head(rules).pat, Head(rules).rep, text))

\* _apply_natural_patterns: the casual rules, then the intimate rules.
apply_natural_patterns(japanese_text) ==
  ApplyRules(intimate_patterns, ApplyRules(casual_patterns, japanese_text))

\* re.sub(r'\s+', ' ', text)
RECURSIVE CollapseSpaces(_)
CollapseSpaces(t) ==
  IF Len(t) < 2 THEN t
  ELSE IF t[1] = " " /\ t[2] = " " THEN CollapseSpaces(Tail(t))
  ELSE <<t[1]>> \o CollapseSpaces(Tail(t))

\* A post-processing that hands the text back as the translator gave it.
PostProcessRaw(chinese_text) == chinese_text

\* _post_process_translation, on texts without tags or formal words: strip,
\* collapse the white space, strip.
post_process_translation(chinese_text) ==
  Strip(CollapseSpaces(Strip(chinese_text)))

\* A fallback that hands back the text as it came.
FallbackOriginal(japanese_text) == japanese_text

\* f"[translation] {japanese_text}", the fallback without a model.
FallbackText(japanese_text) == <<"T", " ">> \o japanese_text

\* The scaled limits of the cache: 'len(cache) > 1000' and '[:100]'.
cache_limit == 2
evict_count == 1

\* The position of the entry of `key`, or 0.
CacheIndex(cache, key) ==
  IF \E i \in 1..Len(cache) : cache[i].key = key
  THEN CHOOSE i \in 1..Len(cache) : cache[i].key = key
  ELSE 0

\* A lookup that never hits.
CacheHitNever(cache, key) == FALSE

\* 'cache_key in self.translation_cache'
CacheHit(cache, key) == CacheIndex(cache, key) > 0

\* 'self.translation_cache[cache_key] = final_text' on a dict, which keeps
\* insertion order: a new key goes last, a present key keeps its place.
CachePut(cache, key, value) ==
  LET i == CacheIndex(cache, key) IN
  IF i = 0 THEN Append(cache, [key |-> key, value |-> value])
  ELSE [cache EXCEPT ![i].value = value]

\* An eviction that removes the newest entries.
CacheLimitNewest(cache) ==
  IF Len(cache) > cache_limit
  THEN SubSeq(cache, 1, Len(cache) - evict_count)
  ELSE cache

\* 'if len(cache) > 1000: delete the first 100 keys'.
CacheLimit(cache) ==
  IF Len(cache) > cache_limit
  THEN SubSeq(cache, evict_count + 1, Len(cache))
  ELSE cache

\* The text _load_model translates to warm the model up.
WarmUpText == <<"h">>

\* A translator object after __init__: the model failed to load, or it
\* loaded and the warm-up call left its entry in the cache, unless the
\* warm-up inference raised.
CacheInit ==
  /\ active = {"mt"}
  /\ StagesInit
  /\ app = "none"
  /\ apc = "none"
  /\ app_is_running = FALSE
  /\ use_direct_mode = "unset"
  /\ ui = "none"
  /\ app_error = FALSE
  /\ stop_calls = 0
  /\ model \in {"loaded", "none"}
  /\ translation_cache \in
       {<<>>} \cup
       {<<[key |-> WarmUpText, value |-> post_process_translation(t)]>> :
          t \in IF model = "loaded" THEN TranslatorTexts ELSE {}}
  /\ calls = 0
  /\ inference_calls = [x \in CacheTexts |-> 0]
  /\ last_call = [text |-> <<>>, result |-> <<>>, hit |-> FALSE,
                  inferred |-> FALSE, raised |-> FALSE]
  /\ PureUnused
  /\ DisplayInit

\* A key taken after the substitution.
CacheKeyRewritten(japanese_text) == Strip(apply_natural_patterns(japanese_text))

\* 'cache_key = japanese_text.strip()', taken before the substitution.
CacheKey(japanese_text) == Strip(japanese_text)

\* _translate_text(japanese_text); `outcome` is what self.translator does
\* if it is called.
TranslateText(japanese_text, outcome) ==
  /\ japanese_text \in CacheTexts
  /\ outcome \in Outcomes("mt")
  /\ calls < MaxCalls
  /\ calls' = calls + 1
  /\ LET cache_key == CacheKey(japanese_text)
         i == CacheIndex(translation_cache, cache_key)
         blank == Strip(japanese_text) = <<>>
         hit == ~blank /\ CacheHit(translation_cache, cache_key)
         infers == ~blank /\ ~hit /\ model = "loaded"
         raised == infers /\ outcome.exc
         preprocessed_text == apply_natural_patterns(japanese_text)
         chinese_text ==
           IF model = "loaded" THEN outcome.text
           ELSE IF preprocessed_text # japanese_text THEN preprocessed_text
           ELSE FallbackText(japanese_text)
         final_text == post_process_translation(chinese_text)
         result == CASE blank -> <<>>
                     [] hit -> translation_cache[i].value
                     [] raised -> japanese_text
                     [] OTHER -> final_text IN
     /\ translation_cache' =
          IF blank \/ hit \/ raised THEN translation_cache
          ELSE CacheLimit(CachePut(translation_cache, cache_key, final_text))
     /\ inference_calls' =
          [inference_calls EXCEPT ![japanese_text] = IF infers THEN @ + 1 ELSE @]
     /\ last_call' = [text |-> japanese_text, result |-> result, hit |-> hit,
                      inferred |-> infers, raised |-> raised]
  /\ UNCHANGED <<model, stageVars, appVars, pureVars, displayVars>>

(* ------------------------------------------- _apply_natural_patterns *)
\* The longest argument of _apply_natural_patterns followed rule by rule.
MaxText == 3

FoldLetters == {"b", "u", "w", "c"}

FoldTexts ==
  UNION {[1..n -> FoldLetters] : n \in 0..MaxText}

\* The rules in the order the two loops visit them.
Rules == casual_patterns \o intimate_patterns

\* 'text = japanese_text'
FoldInit ==
  /\ active = {"mt"}
  /\ StagesInit
  /\ app = "none"
  /\ apc = "none"
  /\ app_is_running = FALSE
  /\ use_direct_mode = "unset"
  /\ ui = "none"
  /\ app_error = FALSE
  /\ stop_calls = 0
  /\ CacheUnused
  /\ DisplayInit
  /\ fold_input \in FoldTexts
  /\ fold_text = fold_input
  /\ fold_pc = 0
  /\ devices = <<>>
  /\ default_device = 0
  /\ device_pc = "none"
  /\ device_id = 0

\* One turn of a loop: 'text = re.sub(jp_pattern, zh_replacement, text)'.
ApplyRule(n) ==
  /\ fold_pc = n - 1
  /\ fold_text' = ReSub(Rules[n].pat, Rules[n].rep, fold_text)
  /\ fold_pc' = n
  /\ UNCHANGED <<fold_input, deviceVars, stageVars, appVars, cacheVars,
                 displayVars>>

\* A turn of 'for ... in self.casual_patterns.items()'.
ApplyCasual ==
  /\ fold_pc \in 0..Len(casual_patterns) - 1
  /\ ApplyRule(fold_pc + 1)

\* A turn of 'for ... in self.intimate_patterns.items()'.
ApplyIntimate ==
  /\ fold_pc \in Len(casual_patterns)..Len(Rules) - 1
  /\ ApplyRule(fold_pc + 1)

FoldNext ==
  \/ ApplyCasual
  \/ ApplyIntimate

FoldSpec == FoldInit /\ [][FoldNext]_vars

CacheNext ==
  \E x \in CacheTexts : \E o \in Outcomes("mt") : TranslateText(x, o)

CacheSpec == CacheInit /\ [][CacheNext]_vars

(* ------------------------------------------- _find_best_input_device *)
\* The longest device list.
MaxDevices == 3

\* A device: whether its lower-cased name holds one of 'loopback',
\* 'monitor', 'what u hear', 'stereo mix', and its max_input_channels.
DeviceKinds == [keyword : BOOLEAN, max_input_channels : 0..1]

DeviceLists == UNION {[1..n -> DeviceKinds] : n \in 0..MaxDevices}

\* The positions of the devices that satisfy a test, and the first of them.
KeywordInputs(ds) ==
  {i \in 1..Len(ds) : ds[i].keyword /\ ds[i].max_input_channels > 0}
AnyInputs(ds) == {i \in 1..Len(ds) : ds[i].max_input_channels > 0}
First(S) == CHOOSE i \in S : \A j \in S : i <= j

\* _find_best_input_device: the position returned, 0 for RuntimeError.
find_best_input_device(ds, default) ==
  IF KeywordInputs(ds) # {} THEN First(KeywordInputs(ds))
  ELSE IF default # 0 THEN default
  ELSE IF AnyInputs(ds) # {} THEN First(AnyInputs(ds))
  ELSE 0

\* The devices and the default setting of the host when the call is made.
DeviceInit ==
  /\ active = {"cap"}
  /\ StagesInit
  /\ app = "none"
  /\ apc = "none"
  /\ app_is_running = FALSE
  /\ use_direct_mode = "unset"
  /\ ui = "none"
  /\ app_error = FALSE
  /\ stop_calls = 0
  /\ CacheUnused
  /\ DisplayInit
  /\ fold_input = <<>>
  /\ fold_text = <<>>
  /\ fold_pc = -1
  /\ devices \in DeviceLists
  /\ default_device \in 0..Len(devices)
  /\ device_pc = "call"
  /\ device_id = 0

\* The call returns a position.
FindDeviceReturn ==
  /\ device_pc = "call"
  /\ find_best_input_device(devices, default_device) # 0
  /\ device_id' = find_best_input_device(devices, default_device)
  /\ device_pc' = "returned"
  /\ UNCHANGED <<devices, default_device, foldVars, stageVars, appVars,
                 cacheVars, displayVars>>

\* The call raises RuntimeError("No suitable input device found").
FindDeviceRaise ==
  /\ device_pc = "call"
  /\ find_best_input_device(devices, default_device) = 0
  /\ device_pc' = "raised"
  /\ UNCHANGED <<devices, default_device, device_id, foldVars, stageVars,
                 appVars, cacheVars, displayVars>>

DeviceNext ==
  \/ FindDeviceReturn
  \/ FindDeviceRaise

DeviceSpec == DeviceInit /\ [][DeviceNext]_vars

(* ------------------------------------------------------------------ claims *)
\* The capacity N the queue claims speak of.  The code configures none
\* (maxsize = 0); any N below the number of items fed shows the difference.
Capacity == MaxItems - 1

LastN(q, n) == IF Len(q) <= n THEN q ELSE SubSeq(q, Len(q) - n + 1, Len(q))

\* A push completes in this step: the put of add_audio_chunk / translate,
\* or the capture callback.
PutStep(s) ==
  IF s = "cap" THEN "cap" \in active /\ nextId' # nextId
  ELSE ppc[s] = "put" /\ ppc'[s] = "idle"

\* The item that push puts.
PutItem(s) == IF s = "cap" THEN nextId ELSE pitem[s].id

\* C1: in every reachable state the input queue of every stage holds at
\* most N items.
C1_QueueWithinCapacity ==
  \A s \in Stages : Len(queue[s]) <= Capacity

\* C2: after more than N pushes with no pop in between, the queue holds
\* exactly the N most recently pushed items, in insertion order.
C2_KeepsNewestN ==
  \A s \in Stages :
    sincePop[s] > Capacity => Ids(queue[s]) = LastN(accepted[s], Capacity)

\* C3: a push leaves the pushed item in the queue as its newest element and
\* discards nothing but older items; between pushes the queue changes only
\* by a worker taking its head.
C3_NewestPresent ==
  [][\A s \in Stages :
       /\ PutStep(s) =>
            /\ queue'[s] # <<>>
            /\ queue'[s][Len(queue'[s])].id = PutItem(s)
            /\ \E k \in 0..Len(queue[s]) :
                 SubSeq(queue'[s], 1, Len(queue'[s]) - 1) =
                   SubSeq(queue[s], k + 1, Len(queue[s]))
       /\ (queue'[s] # queue[s] /\ ~PutStep(s)) =>
            /\ queue'[s] = Tail(queue[s])
            /\ dequeued'[s] = Append(dequeued[s], Head(queue[s]).id)]_vars

\* C3 witness: two items are queued and the newest is the one pushed last.
C3_Witness ==
  \E s \in Stages :
    /\ Len(queue[s]) >= 2
    /\ queue[s][Len(queue[s])].id = nextId - 1
    /\ ppc[s] = "idle"

\* C4: no push ever raises to its producer, and a producer that has passed
\* the guard can always take its put step, wherever the workers are.
C4_PushNeverFails ==
  /\ ~pushRaised
  /\ \A s \in active \cap InferenceStages : ppc[s] = "put" => ENABLED Put(s)
  /\ ("cap" \in active /\ stream = "active" /\ nextId <= MaxItems)
       => \A v \in ChunkVolumes : ENABLED AudioCallback(v)

\* C4 witness: two pushes have completed into a queue that is not empty
\* while a worker sits inside an inference call or a callback.
C4_Witness ==
  \E s \in Stages :
    /\ Len(accepted[s]) >= 2
    /\ queue[s] # <<>>
    /\ \E t \in Threads : wpc[s][t] \in {"infer", "cb"}
    /\ ~pushRaised

\* C5: at most one worker thread of a stage is alive and at most one
\* inference call of a stage is in progress at any instant.
C5_OneWorker ==
  \A s \in InferenceStages :
    /\ Cardinality(Alive(s)) <= 1
    /\ Cardinality(Inferring(s)) <= 1

\* C6: a start() on a running stage and a stop() on a stopped stage change
\* neither the running flag, nor the queue, nor the threads, nor the stream.
C6_NoOpCalls ==
  [][lastEvent' \in {"start_running", "stop_stopped"} =>
       /\ is_running' = is_running
       /\ queue' = queue
       /\ thread' = thread
       /\ wpc' = wpc
       /\ stream' = stream
       /\ cpc' = cpc]_vars

\* C6 witness: start() has just returned early on a running stage with a
\* live worker and a queued item.
C6_Witness ==
  /\ lastEvent = "start_running"
  /\ \E s \in active :
       /\ is_running[s]
       /\ Cardinality(Alive(s)) = 1
       /\ queue[s] # <<>>

\* C7: an input submitted while the running flag is false leaves the queue
\* unchanged, is never queued and never gets a result callback.
C7_StoppedInputIgnored ==
  [][\A s \in InferenceStages :
       /\ rejected'[s] # rejected[s] =>
            (queue'[s] = queue[s] /\ ppc'[s] = "idle")
       /\ \A i \in rejected'[s] :
            /\ i \notin IdSet(queue'[s])
            /\ i # pitem'[s].id
            /\ i \notin Range(accepted'[s])
            /\ i \notin IdSet(emitted'[s])]_vars

\* C7 witness: an input was rejected after an earlier one was accepted and
\* got its result, and the stage is running again.
C7_Witness ==
  \E s \in InferenceStages :
    /\ \E i \in rejected[s] : \E j \in Range(accepted[s]) : j < i
    /\ emitted[s] # <<>>
    /\ is_running[s]

\* C8: a worker thread ends only at its loop test and only when the running
\* flag is false; an exception of an item brings it back to the loop test.
C8_WorkerSurvives ==
  [][\A s \in Stages : \A t \in Threads :
       /\ (wpc[s][t] # "done" /\ wpc'[s][t] = "done") =>
            (wpc[s][t] = "loop" /\ ~is_running[s])
       /\ (lastEvent' \in {"infer_raised", "callback_raised"}
             /\ wpc'[s][t] # wpc[s][t]) =>
            wpc'[s][t] \in {"loop", "cb"}]_vars

\* C8 witness: a result callback has just raised, the stage is running, its
\* worker is back at the loop test and the next item waits in the queue.
C8_Witness ==
  /\ lastEvent = "callback_raised"
  /\ \E s \in active \cap InferenceStages :
       /\ is_running[s]
       /\ queue[s] # <<>>
       /\ \E t \in Threads : Alive(s) = {t} /\ wpc[s][t] = "loop"

\* C9 as claimed: no result callback is invoked for an item whose inference
\* call raised.
C9_FailedItemDropped ==
  \A s \in InferenceStages :
    \A i \in 1..Len(emitted[s]) : ~emitted[s][i].exc

\* C9 as amended: when the inference call raises, the recognition stages
\* invoke no callback for the item; the translation stage invokes its
\* callback with the source text as the translation; the worker goes on.
C9_FailedItemOutcome ==
  [][lastEvent' = "infer_raised" =>
       \A s \in active : \A t \in Threads :
         (wpc[s][t] = "infer" /\ wpc'[s][t] # "infer") =>
           IF s = "mt" /\ result_callback[s]
           THEN /\ emitted'[s] = Append(emitted[s],
                     [id |-> witem[s][t].id, src |-> witem[s][t].v,
                      out |-> witem[s][t].v, exc |-> TRUE])
                /\ wpc'[s][t] = "cb"
           ELSE /\ emitted'[s] = emitted[s]
                /\ wpc'[s][t] = "loop"]_vars

\* C9 witness: the translation stage reported an item whose inference
\* raised, with its source text, and then a later item.
C9_Witness ==
  /\ Len(emitted["mt"]) >= 2
  /\ emitted["mt"][1].exc
  /\ emitted["mt"][1].out = emitted["mt"][1].src
  /\ emitted["mt"][1].id < emitted["mt"][2].id

\* C10: once stop() has returned, no result callback fires for an item that
\* was queued and unprocessed when that stop() was called.
C10_NoResultAfterStop ==
  [][\A s \in InferenceStages :
       cpc[s] = "idle" =>
         \A i \in pending[s] : i \notin (IdSet(emitted'[s]) \ IdSet(emitted[s]))]_vars

\* C11: the items a stage reports are a subsequence of the items it
\* accepted, in the accepted order, and no item is reported twice.
C11_ResultsInAcceptedOrder ==
  \A s \in InferenceStages :
    /\ \A i \in 1..Len(emitted[s]) : emitted[s][i].id \in Range(accepted[s])
    /\ \A i, j \in 1..Len(emitted[s]) :
         i < j => \E a, b \in 1..Len(accepted[s]) :
                    /\ a < b
                    /\ accepted[s][a] = emitted[s][i].id
                    /\ accepted[s][b] = emitted[s][j].id

\* C12: a recognition worker that dequeues a chunk below the silence
\* threshold invokes neither inference nor the result callback for it and
\* goes back to its loop test; no worker ever holds such a chunk inside
\* inference or a callback, and no result is ever reported for one.
C12_SilenceSkipped ==
  [][\A s \in AudioStages :
       /\ \A t \in Threads :
            (/\ wpc[s][t] = "get"
             /\ dequeued'[s] # dequeued[s]
             /\ wpc'[s][t] # "get"
             /\ Head(queue[s]).v < silence_threshold) =>
              /\ wpc'[s][t] = "loop"
              /\ emitted'[s] = emitted[s]
       /\ \A t \in Threads :
            wpc'[s][t] \in {"infer", "cb"} =>
              witem'[s][t].v >= silence_threshold
       /\ \A i \in 1..Len(emitted'[s]) :
            emitted'[s][i].src >= silence_threshold]_vars

\* C12 witness: a worker has just skipped a silent chunk, after an earlier
\* chunk got its result, and stands at its loop test in a running stage.
C12_Witness ==
  /\ lastEvent = "silence_skipped"
  /\ \E s \in active \cap AudioStages :
       /\ is_running[s]
       /\ Len(dequeued[s]) = 2
       /\ Len(emitted[s]) = 1
       /\ \E t \in Threads : Alive(s) = {t} /\ wpc[s][t] = "loop"

\* The three stages of the two-stage pipeline are running.
LegacyRunning ==
  is_running["asr"] /\ is_running["mt"] /\ is_running["cap"]

\* A stage's running flag is set, or cleared, in this step.
Rises(s) == ~is_running[s] /\ is_running'[s]
Falls(s) == is_running[s] /\ ~is_running'[s]

\* C13: when the Direct initialisation raised and the Legacy one succeeded,
\* LiveCaptionDirectApp has use_direct_mode false, both legacy stages are
\* running once its services are started, and the chunks go to the legacy
\* recognizer only.
C13_LegacyFallback ==
  (app = "LiveCaptionDirectApp" /\ {"asr", "mt"} \subseteq active) =>
    /\ use_direct_mode = "false"
    /\ "direct" \notin active
    /\ apc \in {"start_capture", "start_capture_open", "main_loop"} =>
         (is_running["asr"] /\ is_running["mt"])
    /\ Recognizer = "asr"
    /\ accepted["direct"] = <<>>
    /\ Range(dequeued["cap"]) \subseteq
         Range(accepted["asr"]) \cup rejected["asr"]
           \cup {witem["cap"][t].id : t \in Threads}

\* C13 witness: in Legacy mode of LiveCaptionDirectApp, in the main loop
\* with every stage running, the legacy recognizer has accepted a chunk.
C13_Witness ==
  /\ app = "LiveCaptionDirectApp"
  /\ use_direct_mode = "false"
  /\ apc = "main_loop"
  /\ LegacyRunning
  /\ accepted["asr"] # <<>>

\* C14: use_direct_mode is assigned only by _setup_components, once, and
\* keeps that value; the stages that exist, run or receive chunks are
\* always those of that value.
C14_ModeFixed ==
  [][/\ use_direct_mode' # use_direct_mode =>
          (use_direct_mode = "unset" /\ apc = "setup")
     /\ app' = "LiveCaptionDirectApp" =>
          /\ use_direct_mode' = "true" =>
               (active' \subseteq {"direct", "cap"} /\ Recognizer' = "direct")
          /\ use_direct_mode' = "false" =>
               (active' = {"asr", "mt", "cap"} /\ Recognizer' = "asr")
          /\ use_direct_mode' = "unset" =>
               \A s \in Stages : ~is_running'[s] /\ accepted'[s] = <<>>]_vars

\* C14 witness: the orchestrator has gone from start to exit in Direct mode
\* with a chunk accepted by the direct stage.
C14_Witness ==
  /\ app = "LiveCaptionDirectApp"
  /\ use_direct_mode = "true"
  /\ apc = "exited"
  /\ accepted["direct"] # <<>>

\* C15 as claimed: at startup the translation stage is running before the
\* recognition stage starts, and the recognition stage before the capture.
C15_InnermostFirst ==
  [][/\ Rises("asr") => is_running["mt"]
     /\ Rises("cap") => is_running[Recognizer]]_vars

\* C15 as amended: at startup the recognition stage is started first, then
\* the translation stage, then the capture; every inference stage of the
\* mode is running before the capture is started.
C15_CaptureLast ==
  [][/\ Rises("asr") => (~is_running["mt"] /\ ~is_running["cap"])
     /\ Rises("mt") => (is_running["asr"] /\ ~is_running["cap"])
     /\ Rises("direct") => ~is_running["cap"]
     /\ Rises("cap") =>
          /\ is_running[Recognizer]
          /\ Recognizer = "asr" => is_running["mt"]]_vars

\* C15 witness: the two-stage pipeline has reached the main loop with its
\* three stages running and their threads spawned.
C15_Witness ==
  /\ apc = "main_loop"
  /\ LegacyRunning
  /\ \A s \in {"asr", "mt", "cap"} : thread[s] = 1

\* C16: no chunk the capture thread delivers and no text the recognition
\* worker reports finds its consumer stopped.
C16_ConsumerRunning ==
  \A s \in InferenceStages : rejected[s] = {}

\* C17: at shutdown the capture is stopped while the inference stages still
\* run, the recognition stage is stopped only after the capture, and the
\* translation stage only after the recognition stage.
C17_UpstreamFirst ==
  [][/\ (Falls("cap") /\ apc = "stop_capture") =>
          \A s \in active \ {"cap"} : is_running[s]
     /\ Falls(Recognizer) => ~is_running["cap"]
     /\ Falls("mt") => (~is_running["asr"] /\ ~is_running["cap"])]_vars

\* C17 witness: the two-stage pipeline ran and has stopped its three
\* stages; the main thread is about to destroy the UI.
C17_Witness ==
  /\ apc = "destroy_ui"
  /\ \A s \in {"asr", "mt", "cap"} :
       s \in active /\ thread[s] = 1 /\ ~is_running[s]

\* C18: when _stop_services has ended, whether it returned or raised, the
\* running flag of every stage is false.
C18_AllStopped ==
  apc \in {"destroy_ui", "exited"} => \A s \in Stages : ~is_running[s]

\* C19: when both initialisations of LiveCaptionDirectApp have failed,
\* start() lets an error through and no worker thread, no capture thread and
\* no stream is ever started.
C19_AbortsOnDoubleFailure ==
  (/\ app = "LiveCaptionDirectApp"
   /\ ui # "none"
   /\ use_direct_mode = "unset") =>
    /\ app_error
    /\ apc \in {"finally", "stop_capture", "stop_recognition", "exited"}
    /\ stream = "none"
    /\ \A s \in Stages : Spawned(s) = {} /\ ~is_running[s]

\* C19 witness: start() has ended with an error after the legacy recognizer
\* was built and the legacy translator failed.
C19_Witness ==
  /\ app = "LiveCaptionDirectApp"
  /\ use_direct_mode = "unset"
  /\ apc = "exited"
  /\ app_error
  /\ active = {"asr"}

\* The keys of the cache.
CacheKeys(cache) == {cache[i].key : i \in 1..Len(cache)}

\* C20 as claimed: over any sequence of _translate_text calls the inference
\* function is invoked at most once for the same exact text.
C20_InferredOnce ==
  \A x \in CacheTexts : inference_calls[x] <= 1

\* C20 as amended: a call with a text whose stripped form is a key of the
\* cache returns the cached result, invokes no inference and leaves the
\* cache as it is; inference is invoked only on a miss; a text is in the
\* cache after a call whose inference returned, and is not put there by a
\* call whose inference raised.
C20_HitSkipsInference ==
  [][calls' # calls =>
       LET x == last_call'.text
           key == Strip(x)
           i == CacheIndex(translation_cache, key) IN
       /\ (key # <<>> /\ i > 0) =>
            /\ last_call'.hit
            /\ last_call'.result = translation_cache[i].value
            /\ inference_calls' = inference_calls
            /\ translation_cache' = translation_cache
       /\ inference_calls' # inference_calls =>
            /\ key \notin CacheKeys(translation_cache)
            /\ inference_calls' =
                 [inference_calls EXCEPT ![x] = @ + 1]
       /\ (last_call'.inferred /\ ~last_call'.raised) =>
            key \in CacheKeys(translation_cache')
       /\ last_call'.raised =>
            /\ translation_cache' = translation_cache
            /\ last_call'.result = x]_vars

\* C20 witness: a call has just hit the full cache for a text that was
\* inferred once.
C20_Witness ==
  /\ last_call.hit
  /\ Len(translation_cache) = cache_limit
  /\ inference_calls[last_call.text] = 1

\* The entry a call of _translate_text stores when it stores one.
StoredEntry == [key |-> Strip(last_call'.text), value |-> last_call'.result]

\* C21: the cache never holds more than the limit after a call; a call
\* removes nothing while its insertion leaves the cache within the limit;
\* when the insertion exceeds the limit, exactly the oldest evict_count
\* entries are removed, in one pass, and the new entry stays as the newest.
C21_EvictsOldest ==
  [][calls' # calls =>
       /\ Len(translation_cache') <= cache_limit
       /\ \/ /\ last_call'.hit \/ last_call'.raised \/ StoredEntry.key = <<>>
             /\ translation_cache' = translation_cache
          \/ /\ Len(translation_cache) < cache_limit
             /\ translation_cache' = Append(translation_cache, StoredEntry)
          \/ /\ Len(translation_cache) = cache_limit
             /\ translation_cache' =
                  SubSeq(Append(translation_cache, StoredEntry),
                         evict_count + 1, cache_limit + 1)]_vars

\* C21 witness: the third insertion into a translator that started with an
\* empty cache has evicted the first entry and kept the other two in order.
C21_Witness ==
  /\ calls = 3
  /\ \A x \in {<<"a">>, <<"b">>, <<"c">>} : inference_calls[x] = 1
  /\ last_call.text = <<"c">> /\ ~last_call.raised
  /\ Len(translation_cache) = cache_limit
  /\ translation_cache[1].key = <<"b">>
  /\ translation_cache[2].key = <<"c">>
  /\ translation_cache[1].value # <<>>

\* The text the substitution and the strip make of an input.
Rewritten(x) == Strip(apply_natural_patterns(x))

\* C22 as claimed: the cache is looked up by the post-substitution text, so
\* a call whose input rewrites to the same text as a cached input is a hit
\* and invokes no inference.
C22_SharedByRewrittenText ==
  [][calls' # calls =>
       ((\E k \in CacheKeys(translation_cache) :
            Rewritten(k) = Rewritten(last_call'.text))
          => last_call'.hit /\ ~last_call'.inferred)]_vars

\* C22 as amended: the cache is looked up and stored by the stripped input
\* text, taken before the substitution: a call is a hit exactly when its
\* stripped input is a key; a call that stores an entry stores it under its
\* stripped input; and a call whose stripped input is not a key invokes
\* inference on a loaded model even when a cached input rewrites to the
\* same text.
C22_KeyedByStrippedInput ==
  [][calls' # calls =>
       LET key == Strip(last_call'.text) IN
       /\ last_call'.hit <=>
            (key # <<>> /\ key \in CacheKeys(translation_cache))
       /\ translation_cache' # translation_cache =>
            translation_cache'[Len(translation_cache')].key = key
       /\ (key # <<>> /\ key \notin CacheKeys(translation_cache)
             /\ model = "loaded") => last_call'.inferred]_vars

\* C22 witness: two inputs that rewrite to the same text each caused an
\* inference and hold an entry of their own.
C22_Witness ==
  /\ Rewritten(<<"b">>) = Rewritten(<<"y">>)
  /\ {<<"b">>, <<"y">>} = CacheKeys(translation_cache)
  /\ last_call.text = <<"y">> /\ last_call.inferred /\ ~last_call.hit
  /\ inference_calls[<<"b">>] = 1

\* What the claim says a call without a model yields on a miss.
ClaimedFallback(x) ==
  IF apply_natural_patterns(x) # x THEN apply_natural_patterns(x) ELSE x

\* A call on a translator without a model that misses the cache.
FallbackCall ==
  /\ calls' # calls
  /\ model = "none"
  /\ Strip(last_call'.text) # <<>>
  /\ ~last_call'.hit

\* C23 as claimed: without a model a miss yields the rewritten text if the
\* substitution changed the input and the original text if it did not
\* (post-processed on return).
C23_FallbackOriginalText ==
  [][FallbackCall =>
       last_call'.result =
         post_process_translation(ClaimedFallback(last_call'.text))]_vars

\* C23 as amended: without a model a miss yields the rewritten text if the
\* substitution changed the input, and the input behind the marker prefix
\* if it did not (post-processed on return); the result is cached.
C23_FallbackMarked ==
  [][FallbackCall =>
       LET x == last_call'.text
           y == apply_natural_patterns(x) IN
       /\ last_call'.result =
            post_process_translation(IF y # x THEN y ELSE <<"T", " ">> \o x)
       /\ ~last_call'.inferred
       /\ translation_cache'[Len(translation_cache')] =
            [key |-> Strip(x), value |-> last_call'.result]]_vars

\* C23 witness: a translator without a model has answered a text the
\* substitution leaves alone with the marked text, after one it rewrote.
C23_Witness ==
  /\ model = "none"
  /\ last_call.text = <<"a">>
  /\ last_call.result = <<"T", " ", "a">>
  /\ ~last_call.hit
  /\ \E i \in 1..Len(translation_cache) :
       translation_cache[i] = [key |-> <<"b">>, value |-> <<"y">>]

\* A later rule whose pattern is the pattern of rule j or encloses it.
Enclosing(j) == {k \in j + 1..Len(Rules) : Occurs(Rules[j].pat, Rules[k].pat)}

\* C30: the substitution is a fold over the casual rules and then the
\* intimate rules in table order: the text after n turns is the rules 1..n
\* applied in order to the argument, and the text after all turns is what
\* _apply_natural_patterns returns; a turn replaces every match of its
\* pattern in the current text and works on the output of the turns before
\* it; and a rule whose pattern is that of an earlier rule, or encloses it,
\* finds no match when its turn comes.
C30_CumulativeFold ==
  [][fold_pc' # fold_pc =>
       LET n == fold_pc' IN
       /\ fold_text' = ApplyRules(SubSeq(Rules, 1, n), fold_input)
       /\ n = Len(Rules) => fold_text' = apply_natural_patterns(fold_input)
       /\ ~Occurs(Rules[n].pat, fold_text')
       /\ Occurs(Rules[n].pat, fold_text) =>
            /\ fold_text' # fold_text
            /\ \A k \in 1..n - 1 : n \notin Enclosing(k)
       /\ ~Occurs(Rules[n].pat, fold_text) => fold_text' = fold_text]_vars

\* C30 witness: the rule for "w" has rewritten both matches in "wuw"; the
\* rule for the enclosing "uw" came next and found nothing to match in
\* the rewritten text, though the argument holds its pattern.
C30_Witness ==
  /\ fold_input = <<"w", "u", "w">>
  /\ fold_pc = 3
  /\ fold_text = <<"o", "u", "o">>
  /\ Occurs(Rules[3].pat, fold_input)

\* C24: the device selected is the first input-capable device with a
\* loopback keyword, else the configured default device, else the first
\* input-capable device, else the call fails; and the device returned
\* always has at least one input channel.
C24_SelectsInputDevice ==
  /\ device_pc = "returned" =>
       /\ device_id \in 1..Len(devices)
       /\ devices[device_id].max_input_channels > 0
       /\ device_id =
            IF KeywordInputs(devices) # {} THEN First(KeywordInputs(devices))
            ELSE IF default_device # 0 THEN default_device
            ELSE First(AnyInputs(devices))
  /\ device_pc = "raised" =>
       /\ KeywordInputs(devices) = {}
       /\ default_device = 0
       /\ AnyInputs(devices) = {}

\* stop_capture() begins on a running capture service; the step ends with
\* the call raising out of the stream release or entering the join.
StopCaptureStep ==
  /\ "cap" \in active
  /\ cpc["cap"] = "idle"
  /\ is_running["cap"] /\ ~is_running'["cap"]

\* C25: when stop_capture() is called on a running capture service, the
\* stream that start_capture() opened has been stopped and closed once
\* the call is past the release, whether it goes on to return or raises,
\* and the service is stopped.
C25_StopReleasesDevice ==
  [][StopCaptureStep =>
       stream' = "closed" /\ ~is_running'["cap"]]_vars

\* C28: after stop() has cleared the running flag of a recognition or
\* translation stage, every worker thread of the stage that is alive
\* eventually terminates, given that inference calls return and the worker
\* is scheduled.
C28_WorkerTerminates ==
  \A s \in InferenceStages, t \in Threads :
    (s \in active /\ ~is_running[s] /\ t \in Alive(s)) ~> (wpc[s][t] = "done")

\* Worker thread t of stage s leaves its result callback in this step.
CallbackStep(s, t) == wpc[s][t] = "cb" /\ wpc'[s][t] # "cb"

\* The stages whose worker thread owns a counter.
Owners(counter) ==
  CASE counter = "audio_chunks" -> {"cap"}
    [] counter = "transcriptions" -> AudioStages
    [] counter = "translations" -> {"mt"}

\* C29: no step lowers a statistics counter, stop() and start() of the
\* services leave every counter as it is, and a counter changes only in a
\* callback step of a worker thread of the stage that owns it (capture
\* processing thread, recognition worker, translation worker), by one.
C29_CountersOwnedAndMonotonic ==
  [][\A c \in DOMAIN stats :
       /\ stats'[c] >= stats[c]
       /\ stats'[c] # stats[c] =>
            /\ stats'[c] = stats[c] + 1
            /\ \E s \in Owners(c), t \in Threads : CallbackStep(s, t)
            /\ apc' = apc]_vars

\* C29 witness: LiveCaptionApp has stopped its services and left, and each
\* of its three counters still holds what its stage counted.
C29_Witness ==
  /\ app = "LiveCaptionApp"
  /\ apc = "exited"
  /\ stats.audio_chunks = 2
  /\ stats.transcriptions = 1
  /\ stats.translations = 1

\* The inference stages of the selected mode.
DirectSelected == app = "LiveCaptionDirectApp" /\ use_direct_mode = "true"
SelectedStages == IF DirectSelected THEN {"direct"} ELSE {"asr", "mt"}
SelectedRecognizer == IF DirectSelected THEN "direct" ELSE "asr"

\* The ids a stage has reported through its result callback.
Reported(s) == {emitted[s][i].id : i \in 1..Len(emitted[s])}

\* Where the data has gone so far: nothing was offered to a stage of the
\* unselected mode; the selected recognizer was given only chunks the
\* capture thread had taken from the capture queue; the translator was
\* given only results the legacy recognizer had reported; and no stage was
\* given the same item twice.
RoutedDownstream ==
  /\ \A s \in InferenceStages \ SelectedStages :
       accepted[s] = <<>> /\ queue[s] = <<>> /\ rejected[s] = {}
  /\ Range(accepted[SelectedRecognizer]) \subseteq Range(dequeued["cap"])
  /\ Range(accepted["mt"]) \subseteq Reported("asr")
  /\ \A s \in Stages :
       Cardinality(Range(accepted[s])) = Len(accepted[s])

\* C27: the routing follows the selected mode.  A chunk goes to the
\* recognizer of the selected mode only; a Direct result goes to the display
\* (placeholder and Chinese text) and to no translation stage; a Legacy
\* recognition result goes to the display as source text and, when the
\* caption update returns and the translator is running, to the
\* translator's input; a translation result goes to the display as the
\* pair; the display is written by nothing else; nothing flows upstream or
\* to a stage of the unselected mode.
C27_RoutingFollowsMode ==
  [][/\ RoutedDownstream'
     /\ \A t \in Threads :
          /\ CallbackStep("cap", t) =>
               /\ caption' = caption
               /\ wpc'["cap"][t] = "put" =>
                    /\ witem'["cap"][t] = witem["cap"][t]
                    /\ is_running[SelectedRecognizer]
          /\ CallbackStep("direct", t) =>
               /\ DirectSelected
               /\ caption' = [japanese |-> Placeholder,
                              chinese |-> witem["direct"][t].id]
               /\ wpc'["direct"][t] # "put"
          /\ CallbackStep("asr", t) =>
               /\ ~DirectSelected
               /\ caption' = [caption EXCEPT !.japanese = witem["asr"][t].id]
               /\ (is_running["mt"] /\ lastEvent' # "callback_raised") =>
                    /\ wpc'["asr"][t] = "put"
                    /\ witem'["asr"][t].id = witem["asr"][t].id
          /\ CallbackStep("mt", t) =>
               /\ ~DirectSelected
               /\ caption' = [japanese |-> witem["mt"][t].id,
                              chinese |-> witem["mt"][t].id]
               /\ wpc'["mt"][t] # "put"
     /\ caption' # caption =>
          \E s \in InferenceStages, t \in Threads : CallbackStep(s, t)]_vars

\* C27 witness: in Direct mode a result of the direct recognizer is on the
\* display and the legacy stages have been offered nothing.
C27_Witness ==
  /\ DirectSelected
  /\ caption = [japanese |-> Placeholder, chinese |-> 1]
  /\ accepted["direct"] = <<1>>
  /\ accepted["asr"] = <<>> /\ accepted["mt"] = <<>>

\* The translation of utterance i has just succeeded: the translator's
\* worker holds its result and is about to report it.
TranslationSucceeded(i) ==
  /\ ~DirectSelected
  /\ \E t \in Threads :
       /\ wpc["mt"][t] = "cb"
       /\ witem["mt"][t].id = i
       /\ ~ResultOf("mt", t).exc

\* The display has been handed the source text of utterance i: the
\* recognizer reported it and its callback is past update_caption.
SourceReceived(i) ==
  /\ i \in Reported("asr")
  /\ \A t \in Threads : ~(wpc["asr"][t] = "cb" /\ witem["asr"][t].id = i)

\* C26: in Legacy mode, when the recognition and the translation of a loud
\* chunk have both succeeded, the recognized text was enqueued to the
\* translation stage, the display was handed the source text before, and
\* the display is eventually handed the (source, target) pair of that
\* utterance.
C26_SourceThenPair ==
  /\ [](\A i \in 1..MaxItems :
          (TranslationSucceeded(i) \/ (~DirectSelected /\ caption.chinese = i))
            => /\ \E k \in 1..Len(emitted["asr"]) :
                    emitted["asr"][k].id = i /\ ~emitted["asr"][k].exc
               /\ i \in Range(accepted["mt"])
               /\ SourceReceived(i))
  /\ \A i \in 1..MaxItems :
       TranslationSucceeded(i) ~> (caption = [japanese |-> i, chinese |-> i])

\* C26 witness: the Legacy mode of LiveCaptionDirectApp shows the pair of
\* the first utterance, whose recognition and translation succeeded.
C26_Witness ==
  /\ app = "LiveCaptionDirectApp"
  /\ use_direct_mode = "false"
  /\ caption = [japanese |-> 1, chinese |-> 1]
  /\ \E k \in 1..Len(emitted["mt"]) :
       emitted["mt"][k].id = 1 /\ ~emitted["mt"][k].exc

\* The main thread is inside stop(): _stop_services or the destruction of
\* the caption UI.
InStop ==
  apc \in {"stop_capture", "stop_recognition", "stop_translation",
           "destroy_ui"}

\* C31: the orchestrator's stop() completes without raising in every state
\* it is called in, a startup that failed before the mode was selected or
\* before any component was created included: stop() is left only by its
\* last statement, after caption_ui.destroy().
C31_StopNeverRaises ==
  [][(InStop /\ apc' = "exited") => apc = "destroy_ui"]_vars

\* start() has returned after start_capture() raised before it started the
\* processing thread: no device was found, or the stream could not be opened.
CaptureStartFailed ==
  /\ apc = "exited"
  /\ "cap" \in active
  /\ Spawned("cap") = {}

\* C32: if start_capture() raises for want of a device after the inference
\* stages were started, then once start() has returned every stage that had
\* been started is stopped again and the capture service is stopped, with
\* no stream and no processing thread.
C32_FailedCaptureStopsAll ==
  CaptureStartFailed =>
    /\ app_error
    /\ \A s \in Stages : ~is_running[s]
    /\ \A s \in SelectedStages : s \in active /\ thread[s] # 0
    /\ stream = "none" /\ thread["cap"] = 0

\* C32 witness: LiveCaptionApp started its recognizer and its translator,
\* found no device, and start() has returned with both stages stopped.
C32_Witness ==
  /\ CaptureStartFailed
  /\ app = "LiveCaptionApp"
  /\ thread["asr"] = 1 /\ thread["mt"] = 1
  /\ \A s \in Stages : ~is_running[s]
  /\ ui = "destroyed"

\* C33: once the orchestrator's stop() has returned and the caption UI is
\* destroyed, no worker thread of an inference stage completes a result
\* callback, that is, no stage callback calls update_caption any more,
\* whatever the workers were doing when their join timed out.
C33_NoUpdateAfterStop ==
  [][(apc = "exited" /\ ui = "destroyed") =>
       \A s \in InferenceStages, t \in Threads : ~CallbackStep(s, t)]_vars

\* C34: in Legacy mode, whenever the caption window holds both a source
\* text and a target text, the target text is the translation of the source
\* text it holds: both belong to the same utterance.
C34_TargetMatchesSource ==
  (~DirectSelected /\ caption.japanese # 0 /\ caption.chinese # 0) =>
    caption.chinese = caption.japanese

\* A step of start() or stop() of stage s: the flag changes, the controller
\* moves to or from the join, or the call returns early.
ControlStep(s) ==
  \/ is_running'[s] # is_running[s]
  \/ cpc'[s] # cpc[s]
  \/ thread'[s] # thread[s]

C36_CountersOrdered ==
  app = "LiveCaptionApp" =>
    /\ stats.translations <= stats.transcriptions
    /\ stats.transcriptions <= stats.audio_chunks
    /\ Len(emitted["mt"]) <= stats.transcriptions
    /\ Len(emitted["asr"]) <= stats.audio_chunks

\* C36 witness: LiveCaptionApp has counted two chunks, two recognition
\* results and two translations: the bounds are met with equality.
C36_Witness ==
  /\ app = "LiveCaptionApp"
  /\ stats = [audio_chunks |-> 2, transcriptions |-> 2, translations |-> 2]

\* C37: when the event loop of the caption UI has ended, the orchestrator's
\* is_running flag is false, and with the main thread and the workers
\* scheduled the orchestrator eventually ends its shutdown with the capture
\* and every inference stage stopped.
C37_UIEndShutsDown ==
  /\ [](ui = "ended" => ~app_is_running)
  /\ (ui = "ended") ~> (apc = "exited" /\ \A s \in Stages : ~is_running[s])

\* C38: the orchestrator's stop() is idempotent.  From the moment it is
\* called a second time, no step raises out of it, no thread is spawned,
\* and the running flags, the threads and the stream of the capture and of
\* every stage stay exactly as the first call left them.
C38_StopIdempotent ==
  [][stop_calls' >= 2 =>
       /\ (InStop /\ apc' = "exited") => apc = "destroy_ui"
       /\ \A s \in Stages : Spawned(s)' = Spawned(s)
       /\ is_running' = is_running
       /\ thread' = thread
       /\ stream' = stream]_vars

\* start_capture() raises in this step out of its try block: opening the
\* stream or starting it failed.
StartCaptureRaises ==
  /\ cpc["cap"] = "open"
  /\ cpc'["cap"] = "idle"
  /\ ~is_running'["cap"]

\* C39: when start_capture() fails, the capture service is stopped (so that
\* a later start_capture() is not an early return), holds no open stream, and
\* every processing thread it has is ended or at its loop test with the flag
\* cleared.  (A failed device selection changes no field at all.)
C39_FailedStartLeavesStopped ==
  [][StartCaptureRaises =>
       /\ ~is_running'["cap"]
       /\ stream' \notin {"open", "active"}
       /\ \A t \in Threads : wpc'["cap"][t] \in {"none", "loop", "done"}]_vars

\* A text without leading or trailing white space.
IsStripped(t) == t = <<>> \/ (t[1] # " " /\ t[Len(t)] # " ")

\* A text as _post_process_translation leaves one: stripped, and with no
\* run of white space longer than one blank.
IsPostProcessed(t) ==
  /\ IsStripped(t)
  /\ \A i \in 1..Len(t) - 1 : ~(t[i] = " " /\ t[i + 1] = " ")

\* C40: after every return of _translate_text the cache holds at most
\* cache_limit entries; every key is a stripped, non-empty text, no key
\* occurs twice, every value is a post-processed text; and every entry of
\* the cache after a call was there before it, unchanged, or is the stripped
\* input of this call with the result this call returned.
C40_CacheEntriesSound ==
  /\ [](/\ Len(translation_cache) <= cache_limit
        /\ \A i \in 1..Len(translation_cache) :
             /\ translation_cache[i].key # <<>>
             /\ IsStripped(translation_cache[i].key)
             /\ IsPostProcessed(translation_cache[i].value)
             /\ \A j \in 1..Len(translation_cache) :
                  translation_cache[j].key = translation_cache[i].key => j = i)
  /\ [][calls' # calls =>
          \A e \in Range(translation_cache') :
            \/ e \in Range(translation_cache)
            \/ /\ e = StoredEntry
               /\ ~last_call'.hit /\ ~last_call'.raised
               /\ e = translation_cache'[Len(translation_cache')]]_vars

\* C40 witness: the cache is full after a call that stored, under the
\* stripped form of an input with a leading blank, a result whose white
\* space the post-processing collapsed, next to the entry of an earlier call.
C40_Witness ==
  /\ Len(translation_cache) = cache_limit
  /\ last_call.text = <<" ", "a">>
  /\ ~last_call.hit /\ ~last_call.raised
  /\ translation_cache[cache_limit] =
       [key |-> <<"a">>, value |-> last_call.result]
  /\ last_call.result # FallbackText(last_call.text)
  /\ last_call.result = <<"T", " ", "a">>
  /\ translation_cache[1].key = <<"b">>

====
